---- MODULE Spec2Model ----
(***************************************************************************)
(* Model of the support-chatbot backend: the classify route, the language- *)
(* model call with its retries, classifyMessage and the context resolver   *)
(* (enrichClassification and its helpers).                                 *)
(*                                                                         *)
(* Texts are TLA+ strings handled character by character (SubSeq, Len,     *)
(* \o), so includes(), toLowerCase(), the regular expressions and          *)
(* JSON.parse are computed on the characters, as the code computes them.   *)
(* JavaScript values are tagged records [t |-> tag, v |-> payload].        *)
(***************************************************************************)
EXTENDS Integers, Sequences, FiniteSets, TLC

(***************************************************************************)
(* JavaScript values                                                       *)
(***************************************************************************)
JStr(s) == [t |-> "str", v |-> s]
JNum(n) == [t |-> "num", v |-> n]
JBool(b) == [t |-> "bool", v |-> b]
JObj(m) == [t |-> "obj", v |-> m]
JArr(q) == [t |-> "arr", v |-> q]
JNull == [t |-> "null", v |-> 0]
JUndef == [t |-> "undef", v |-> 0]

EmptyMap == [k \in {} |-> JUndef]

\* JavaScript truthiness: "", 0, false, null and undefined are falsy.
Truthy(x) ==
  CASE x.t = "str" -> x.v # ""
    [] x.t = "num" -> x.v # 0
    [] x.t = "bool" -> x.v
    [] x.t \in {"null", "undef"} -> FALSE
    [] OTHER -> TRUE

\* a || b
Or(a, b) == IF Truthy(a) THEN a ELSE b

\* x.k for a value that is neither null nor undefined
Get(x, k) ==
  IF x.t = "obj" /\ k \in DOMAIN x.v THEN x.v[k] ELSE JUndef

\* x.k throws a TypeError on null and undefined
Nullish(x) == x.t \in {"null", "undef"}

\* typeof x
TypeOf(x) ==
  CASE x.t = "str" -> "string"
    [] x.t = "num" -> "number"
    [] x.t = "bool" -> "boolean"
    [] x.t = "undef" -> "undefined"
    [] OTHER -> "object"

\* the own enumerable properties copied by an object spread {...x}
Spread(x) ==
  CASE x.t = "obj" -> x.v
    [] x.t = "str" -> [i \in {ToString(j - 1) : j \in 1..Len(x.v)} |->
                         JStr(SubSeq(x.v, (CHOOSE j \in 1..Len(x.v) : ToString(j - 1) = i),
                                          (CHOOSE j \in 1..Len(x.v) : ToString(j - 1) = i)))]
    [] OTHER -> EmptyMap

\* Merge with the first object winning
Merge_FirstWins(a, b) == a @@ b

\* {...a, ...b}: the keys of both, b winning on the keys present in both
Merge(a, b) == b @@ a

(***************************************************************************)
(* Strings, character by character                                         *)
(***************************************************************************)
Ch(s, i) == IF i >= 1 /\ i <= Len(s) THEN SubSeq(s, i, i) ELSE ""

Digits == {"0", "1", "2", "3", "4", "5", "6", "7", "8", "9"}
Lower == {"a", "b", "c", "d", "e", "f", "g", "h", "i", "j", "k", "l", "m",
          "n", "o", "p", "q", "r", "s", "t", "u", "v", "w", "x", "y", "z"}
Upper == {"A", "B", "C", "D", "E", "F", "G", "H", "I", "J", "K", "L", "M",
          "N", "O", "P", "Q", "R", "S", "T", "U", "V", "W", "X", "Y", "Z"}
Letters == Lower \cup Upper
Whitespace == {" ", "\n", "\t"}

LowerOf ==
  [c \in Upper |->
     CASE c = "A" -> "a" [] c = "B" -> "b" [] c = "C" -> "c" [] c = "D" -> "d"
       [] c = "E" -> "e" [] c = "F" -> "f" [] c = "G" -> "g" [] c = "H" -> "h"
       [] c = "I" -> "i" [] c = "J" -> "j" [] c = "K" -> "k" [] c = "L" -> "l"
       [] c = "M" -> "m" [] c = "N" -> "n" [] c = "O" -> "o" [] c = "P" -> "p"
       [] c = "Q" -> "q" [] c = "R" -> "r" [] c = "S" -> "s" [] c = "T" -> "t"
       [] c = "U" -> "u" [] c = "V" -> "v" [] c = "W" -> "w" [] c = "X" -> "x"
       [] c = "Y" -> "y" [] c = "Z" -> "z"]

\* s.toLowerCase(): s itself when it holds no upper-case letter, otherwise
\* its two halves converted one after the other
RECURSIVE toLowerCase(_)
toLowerCase(s) ==
  IF \A i \in 1..Len(s) : SubSeq(s, i, i) \notin Upper THEN s
  ELSE IF Len(s) = 1 THEN LowerOf[s]
  ELSE LET h == Len(s) \div 2
       IN toLowerCase(SubSeq(s, 1, h)) \o toLowerCase(SubSeq(s, h + 1, Len(s)))

\* s.startsWith(p, i), positions counted from 1
StartsAt(s, p, i) == i + Len(p) - 1 <= Len(s) /\ SubSeq(s, i, i + Len(p) - 1) = p

\* s.includes(p)
includes(s, p) == \E i \in 1..(Len(s) - Len(p) + 1) : StartsAt(s, p, i)

\* the first index >= i whose character is not in set S (Len(s) + 1 if none)
RunEnd(s, i, S) ==
  IF i > Len(s) THEN i
  ELSE CHOOSE j \in i..(Len(s) + 1) :
         /\ j = Len(s) + 1 \/ Ch(s, j) \notin S
         /\ \A k \in i..(j - 1) : Ch(s, k) \in S

\* the first index >= i whose character is in set T (Len(s) + 1 if none)
FirstIn(s, i, T) ==
  IF i > Len(s) THEN i
  ELSE CHOOSE j \in i..(Len(s) + 1) :
         /\ j = Len(s) + 1 \/ Ch(s, j) \in T
         /\ \A k \in i..(j - 1) : Ch(s, k) \notin T

\* s.trim()
\* the index of the last character that is not whitespace, 0 if none
LastNonWs(s) ==
  CHOOSE j \in 0..Len(s) :
    /\ j = 0 \/ Ch(s, j) \notin Whitespace
    /\ \A k \in (j + 1)..Len(s) : Ch(s, k) \in Whitespace
trim(s) == SubSeq(s, RunEnd(s, 1, Whitespace), LastNonWs(s))

\* s.replace(/p/g, r) and s.replace(/p/gi, r) for a literal pattern p: the
\* non-overlapping occurrences, left to right, in one pass
OccursAt(s, p, ci, i) ==
  /\ i + Len(p) - 1 <= Len(s)
  /\ IF ci THEN toLowerCase(SubSeq(s, i, i + Len(p) - 1)) = p
           ELSE SubSeq(s, i, i + Len(p) - 1) = p
RECURSIVE ReplaceFrom(_, _, _, _, _)
ReplaceFrom(s, p, r, ci, i) ==
  IF \A j \in i..Len(s) : ~OccursAt(s, p, ci, j) THEN SubSeq(s, i, Len(s))
  ELSE LET j == CHOOSE x \in i..Len(s) :
                  OccursAt(s, p, ci, x) /\ \A y \in i..(x - 1) : ~OccursAt(s, p, ci, y)
       IN SubSeq(s, i, j - 1) \o r \o ReplaceFrom(s, p, r, ci, j + Len(p))
\* s.replace(p, r) without the g flag: the first occurrence only
replaceAll_FirstOnly(s, p, r) ==
  IF ~includes(s, p) THEN s
  ELSE LET j == CHOOSE x \in 1..Len(s) :
                  StartsAt(s, p, x) /\ \A y \in 1..(x - 1) : ~StartsAt(s, p, y)
       IN SubSeq(s, 1, j - 1) \o r \o SubSeq(s, j + Len(p), Len(s))
replaceAll(s, p, r) == ReplaceFrom(s, p, r, FALSE, 1)
\* s.replace(/p/g, r) in place of s.replace(/p/gi, r)
replaceAllIgnoreCase_CaseSensitive(s, p, r) == ReplaceFrom(s, p, r, FALSE, 1)
replaceAllIgnoreCase(s, p, r) == ReplaceFrom(s, p, r, TRUE, 1)

\* /\d{4,}/.test(s)
HasDigitRun(s) == \E i \in 1..Len(s) : RunEnd(s, i, Digits) >= i + 4

\* s.match(/#(\d{4,})/): the capture group of the leftmost match, "" if none
orderNumberRegex(s) ==
  LET starts == {i \in 1..Len(s) : Ch(s, i) = "#" /\ RunEnd(s, i + 1, Digits) >= i + 5}
  IN IF starts = {} THEN ""
     ELSE LET i == CHOOSE x \in starts : \A y \in starts : x <= y
          IN SubSeq(s, i + 1, RunEnd(s, i + 1, Digits) - 1)

\* /[a-zA-Z0-9._%+-]+@[a-zA-Z0-9.-]+\.[a-zA-Z]{2,}/
LocalChars == Letters \cup Digits \cup {".", "_", "%", "+", "-"}
DomainChars == Letters \cup Digits \cup {".", "-"}

\* the first index of the run of characters of set S that ends just before a
RunStart(s, a, S) ==
  CHOOSE i \in 1..a :
    /\ i = 1 \/ Ch(s, i - 1) \notin S
    /\ \A k \in i..(a - 1) : Ch(s, k) \in S

\* the end of the match whose "@" is at a, 0 if there is none: the domain
\* part is taken greedily and backtracks to the last "." that two letters
\* follow
EmailEndAt(s, a) ==
  LET dEnd == RunEnd(s, a + 1, DomainChars)
      dots == {m \in (a + 2)..(dEnd - 1) :
                 Ch(s, m) = "." /\ RunEnd(s, m + 1, Letters) >= m + 3}
  IN IF dots # {}
     THEN RunEnd(s, (CHOOSE m \in dots : \A k \in dots : k <= m) + 1, Letters) - 1
     ELSE 0

\* s.match(emailRegex): the leftmost match, "" if none.  A match holds one
\* "@", which no character class of the pattern contains: it starts where the
\* run of local-part characters before that "@" starts
emailRegex(s) ==
  LET ats == {a \in 2..Len(s) :
                Ch(s, a) = "@" /\ Ch(s, a - 1) \in LocalChars /\ EmailEndAt(s, a) > 0}
  IN IF ats = {} THEN ""
     ELSE LET a == CHOOSE x \in ats : \A y \in ats : x <= y
          IN SubSeq(s, RunStart(s, a, LocalChars), EmailEndAt(s, a))

(***************************************************************************)
(* JSON.parse on objects, arrays, strings without escapes, integers and    *)
(* the literals true, false and null                                       *)
(***************************************************************************)
Fail == [ok |-> FALSE, v |-> JUndef, n |-> 0]
Ok(x, next) == [ok |-> TRUE, v |-> x, n |-> next]

SkipWs(s, i) == RunEnd(s, i, Whitespace \cup {"\r"})

RECURSIVE ParseValue(_, _)
RECURSIVE ParseMembers(_, _, _)
RECURSIVE ParseElements(_, _, _)

\* a string literal whose opening quote is at i
ParseString(s, i) ==
  LET j == FirstIn(s, i + 1, {"\"", "\\", "\n", "\t"})
  IN IF Ch(s, j) # "\"" THEN Fail
     ELSE Ok(JStr(SubSeq(s, i + 1, j - 1)), j + 1)

\* the digits of a non-negative integer literal, as a number
RECURSIVE DigitsValue(_)
DigitsValue(d) ==
  IF d = "" THEN 0
  ELSE 10 * DigitsValue(SubSeq(d, 1, Len(d) - 1))
       + (CHOOSE n \in 0..9 : ToString(n) = Ch(d, Len(d)))

ParseValue(s, i0) ==
  LET i == SkipWs(s, i0)
      c == Ch(s, i)
  IN CASE c = "{" -> ParseMembers(s, i + 1, EmptyMap)
       [] c = "[" -> ParseElements(s, i + 1, <<>>)
       [] c = "\"" -> ParseString(s, i)
       [] c = "t" -> IF StartsAt(s, "true", i) THEN Ok(JBool(TRUE), i + 4) ELSE Fail
       [] c = "f" -> IF StartsAt(s, "false", i) THEN Ok(JBool(FALSE), i + 5) ELSE Fail
       [] c = "n" -> IF StartsAt(s, "null", i) THEN Ok(JNull, i + 4) ELSE Fail
       [] c \in Digits ->
            LET e == RunEnd(s, i, Digits)
            IN IF c = "0" /\ e > i + 1 THEN Fail
               ELSE Ok(JNum(DigitsValue(SubSeq(s, i, e - 1))), e)
       [] OTHER -> Fail

\* the members of an object after "{" or ","; acc holds the members read
ParseMembers(s, i0, acc) ==
  LET i == SkipWs(s, i0)
  IN IF Ch(s, i) = "}" /\ DOMAIN acc = {} THEN Ok(JObj(acc), i + 1)
     ELSE IF Ch(s, i) # "\"" THEN Fail
     ELSE LET key == ParseString(s, i)
          IN IF ~key.ok THEN Fail
             ELSE LET c == SkipWs(s, key.n)
                  IN IF Ch(s, c) # ":" THEN Fail
                     ELSE LET val == ParseValue(s, c + 1)
                          IN IF ~val.ok THEN Fail
                             ELSE LET e == SkipWs(s, val.n)
                                      m == (key.v.v :> val.v) @@ acc
                                  IN CASE Ch(s, e) = "}" -> Ok(JObj(m), e + 1)
                                       [] Ch(s, e) = "," -> ParseMembers(s, e + 1, m)
                                       [] OTHER -> Fail

ParseElements(s, i0, acc) ==
  LET i == SkipWs(s, i0)
  IN IF Ch(s, i) = "]" /\ acc = <<>> THEN Ok(JArr(acc), i + 1)
     ELSE LET val == ParseValue(s, i)
          IN IF ~val.ok THEN Fail
             ELSE LET e == SkipWs(s, val.n)
                  IN CASE Ch(s, e) = "]" -> Ok(JArr(Append(acc, val.v)), e + 1)
                       [] Ch(s, e) = "," -> ParseElements(s, e + 1, Append(acc, val.v))
                       [] OTHER -> Fail

\* JSON.parse(s): ok = FALSE where JSON.parse throws a SyntaxError
JSONparse(s) ==
  LET r == ParseValue(s, 1)
  IN IF r.ok /\ SkipWs(s, r.n) = Len(s) + 1 THEN r ELSE Fail

(***************************************************************************)
(* AIService: configuration                                                *)
(***************************************************************************)
MAX_RETRIES == 3
RETRY_DELAY == 1000
RETURNS_PORTAL_URL == "https://returns.shop"

\* The backtick cannot be written in a TLA+ string: "^" stands for it.
Backtick == "^"

(***************************************************************************)
(* AIService: classifications                                              *)
(***************************************************************************)
DefaultParameters ==
  [order_number |-> JStr(""), email |-> JStr(""), product_handle |-> JStr(""),
   new_delivery_info |-> JStr(""), delivery_status |-> JStr(""),
   tracking_number |-> JStr(""), delivery_address_confirmed |-> JBool(FALSE),
   return_type |-> JStr(""), returns_website_sent |-> JBool(FALSE),
   product_name |-> JStr(""), size_query |-> JStr(""), update_type |-> JStr(""),
   height |-> JStr(""), fit |-> JStr("")]

getDefaultClassification ==
  JObj([intent |-> JStr("other-general"),
        parameters |-> JObj(DefaultParameters),
        language |-> JStr("English")])

Intent(c) == Get(c, "intent")
Parameters(c) == Get(c, "parameters")
Param(c, k) == Get(Parameters(c), k)
IntentIs(c, name) == Intent(c).t = "str" /\ Intent(c).v = name
WithIntent(c, x) == JObj(("intent" :> x) @@ c.v)
WithParameters(c, p) == JObj(("parameters" :> p) @@ c.v)
\* classification.parameters.k = x; a TypeError when parameters is a primitive
CanSetParam(c) == Parameters(c).t = "obj"
SetParam(c, k, x) == WithParameters(c, JObj((k :> x) @@ Parameters(c).v))

\* classification.parameters.order_number || classification.parameters.email || ""
userMessageOf(c) == Or(Or(Param(c, "order_number"), Param(c, "email")), JStr(""))

sanitizeInput(input) ==
  IF input.t # "str" THEN ""
  ELSE trim(replaceAllIgnoreCase(
              replaceAll(input.v, Backtick \o Backtick \o Backtick, "'''"),
              "system:", "sys:"))

(***************************************************************************)
(* AIService: the context resolver.  A context is a sequence of turns      *)
(* [role |-> string, content |-> string].                                  *)
(***************************************************************************)
\* The accented letters of the keyword lists are written as single letters
\* (the source file holds each as a two-character sequence that a TLA+ string
\* cannot hold); no input of the model contains an accented letter.

\* [...context].reverse().find(role is system or assistant): its index, 0 if none
lastSystemMessage(context) ==
  LET idx == {i \in 1..Len(context) : context[i].role \in {"system", "assistant"}}
  IN IF idx = {} THEN 0 ELSE CHOOSE i \in idx : \A j \in idx : j <= i

AnyOf(u, phrases) == \E p \in phrases : includes(u, p)

isFollowUpResponse(classification, context) ==
  LET last == lastSystemMessage(context)
  IN IF last = 0 THEN FALSE
     ELSE LET systemContent == toLowerCase(context[last].content)
              userMessage == userMessageOf(classification).v
              askedForOrderNumber ==
                AnyOf(systemContent, {"número de pedido", "order number", "#"})
              askedForEmail == AnyOf(systemContent, {"email", "correo"})
              providedOrderNumber == includes(userMessage, "#") \/ HasDigitRun(userMessage)
              providedEmail == emailRegex(userMessage) # ""
          IN (askedForOrderNumber /\ providedOrderNumber)
             \/ (askedForEmail /\ providedEmail)

newRequestPhrases ==
  {"otro pedido", "otra orden", "otra cosa", "algo más", "quiero", "necesito",
   "tengo", "buscar", "another order", "something else", "want to", "need to",
   "have", "find", "track"}

isNewRequest(classification, context) ==
  LET lastUserMessage == userMessageOf(classification).v
      containsNewRequestPhrase == AnyOf(toLowerCase(lastUserMessage), newRequestPhrases)
      last == lastSystemMessage(context)
  IN IF last = 0 THEN FALSE
     ELSE LET systemContent == toLowerCase(context[last].content)
              wasConcludingPreviousRequest ==
                \/ AnyOf(systemContent, {"que tengas", "have a great", "gracias", "thank you"})
                \/ (includes(systemContent, "pedido")
                    /\ AnyOf(systemContent, {"número de seguimiento", "tracking number"}))
                \/ (includes(systemContent, "devolución")
                    /\ includes(systemContent, "procedimiento"))
                \/ (includes(systemContent, "return") /\ includes(systemContent, "procedure"))
                \/ (includes(systemContent, "talla")
                    /\ includes(systemContent, "recomendación"))
                \/ (includes(systemContent, "size")
                    /\ includes(systemContent, "recommendation"))
          IN containsNewRequestPhrase /\ wasConcludingPreviousRequest

\* the if-chain with the product_sizing test ahead of the returns_exchange test
newRequestIntent_SizingFirst(userMessage) ==
  LET u == toLowerCase(userMessage)
  IN IF includes(u, "pedido")
        /\ AnyOf(u, {"localizar", "donde", "buscar", "track", "where", "find"})
     THEN "order_tracking"
     ELSE IF AnyOf(u, {"talla", "tamaño", "size", "fit", "medida"})
     THEN "product_sizing"
     ELSE IF AnyOf(u, {"devolver", "cambiar", "return", "exchange", "devolución", "cambio"})
     THEN "returns_exchange"
     ELSE IF AnyOf(u, {"disponible", "stock", "available", "cuando", "when"})
     THEN "restock"
     ELSE IF AnyOf(u, {"descuento", "promo", "discount", "offer", "código", "code"})
     THEN "promo_code"
     ELSE IF AnyOf(u, {"factura", "recibo", "invoice", "receipt"})
     THEN "invoice_request"
     ELSE IF AnyOf(u, {"no he recibido", "no llega", "haven't received", "not arrived",
                       "problema", "problem"})
     THEN "delivery_issue"
     ELSE IF AnyOf(u, {"dirección", "address"})
     THEN "change_delivery"
     ELSE IF AnyOf(u, {"actualizar pedido", "modificar pedido", "update order",
                       "modify order", "cambiar pedido", "change order"})
     THEN "update_order"
     ELSE IF AnyOf(u, {"pedido", "order"})
     THEN "other-order"
     ELSE "other-general"

\* the intent derived from the keyword groups, in the order of the if-chain
newRequestIntent(userMessage) ==
  LET u == toLowerCase(userMessage)
  IN IF includes(u, "pedido")
        /\ AnyOf(u, {"localizar", "donde", "buscar", "track", "where", "find"})
     THEN "order_tracking"
     ELSE IF AnyOf(u, {"devolver", "cambiar", "return", "exchange", "devolución", "cambio"})
     THEN "returns_exchange"
     ELSE IF AnyOf(u, {"talla", "tamaño", "size", "fit", "medida"})
     THEN "product_sizing"
     ELSE IF AnyOf(u, {"disponible", "stock", "available", "cuando", "when"})
     THEN "restock"
     ELSE IF AnyOf(u, {"descuento", "promo", "discount", "offer", "código", "code"})
     THEN "promo_code"
     ELSE IF AnyOf(u, {"factura", "recibo", "invoice", "receipt"})
     THEN "invoice_request"
     ELSE IF AnyOf(u, {"no he recibido", "no llega", "haven't received", "not arrived",
                       "problema", "problem"})
     THEN "delivery_issue"
     ELSE IF AnyOf(u, {"cambiar dirección", "nueva dirección", "change address",
                       "new address", "dirección", "address"})
     THEN "change_delivery"
     ELSE IF AnyOf(u, {"actualizar pedido", "modificar pedido", "update order",
                       "modify order", "cambiar pedido", "change order"})
     THEN "update_order"
     ELSE IF AnyOf(u, {"pedido", "order"})
     THEN "other-order"
     ELSE "other-general"

classifyNewRequest(classification) ==
  LET userMessage == userMessageOf(classification).v
  IN WithIntent(WithParameters(classification, JObj(DefaultParameters)),
                JStr(newRequestIntent(userMessage)))

\* scannedTurn skipping assistant turns only
scannedTurn_NotAssistant(msg) == msg.role # "assistant"

\* the turns the loop of extractOrderInfoFromContext reads: it skips a turn
\* whose role is not "user"
scannedTurn(msg) == msg.role = "user"

\* the for loop of extractOrderInfoFromContext from turn i on
RECURSIVE extractOrderInfoLoop(_, _, _)
extractOrderInfoLoop(c, context, i) ==
  IF i > Len(context) THEN [thrown |-> FALSE, value |-> c]
  ELSE LET msg == context[i]
       IN IF ~scannedTurn(msg) THEN extractOrderInfoLoop(c, context, i + 1)
          ELSE LET orderMatch == orderNumberRegex(msg.content)
                   setsOrder == ~Truthy(Param(c, "order_number")) /\ orderMatch # ""
                   emailMatch == emailRegex(msg.content)
                   setsEmail == ~Truthy(Param(c, "email")) /\ emailMatch # ""
               IN IF (setsOrder \/ setsEmail) /\ ~CanSetParam(c)
                  THEN [thrown |-> TRUE, value |-> c]
                  ELSE LET c1 == IF setsOrder
                                 THEN SetParam(c, "order_number", JStr(orderMatch)) ELSE c
                           c2 == IF setsEmail
                                 THEN SetParam(c1, "email", JStr(emailMatch)) ELSE c1
                       IN IF Truthy(Param(c2, "order_number")) /\ Truthy(Param(c2, "email"))
                          THEN [thrown |-> FALSE, value |-> c2]
                          ELSE extractOrderInfoLoop(c2, context, i + 1)

\* the turns of a context from the last to the first
RECURSIVE Backwards(_)
Backwards(context) ==
  IF Len(context) = 0 THEN <<>>
  ELSE <<context[Len(context)]>> \o Backwards(SubSeq(context, 1, Len(context) - 1))

\* extractOrderInfoFromContext reading the latest turn first
extractOrderInfoFromContext_LatestFirst(classification, context) ==
  IF ~Truthy(Param(classification, "order_number"))
     \/ ~Truthy(Param(classification, "email"))
  THEN extractOrderInfoLoop(classification, Backwards(context), 1)
  ELSE [thrown |-> FALSE, value |-> classification]

extractOrderInfoFromContext(classification, context) ==
  IF ~Truthy(Param(classification, "order_number"))
     \/ ~Truthy(Param(classification, "email"))
  THEN extractOrderInfoLoop(classification, context, 1)
  ELSE [thrown |-> FALSE, value |-> classification]

\* takenOrNull without the test on "other-general"
takenOrNull_AnyIntent(prev) ==
  IF /\ prev.ok
     /\ ~Nullish(prev.v)
     /\ Truthy(Get(prev.v, "intent"))
  THEN prev.v ELSE JNull

\* the test on a parsed turn in the loop of inheritPreviousIntent: the parse
\* succeeded (a failed parse or a null value is caught and skipped) and the
\* value carries a truthy intent other than "other-general"; JNull otherwise
takenOrNull(prev) ==
  IF /\ prev.ok
     /\ ~Nullish(prev.v)
     /\ Truthy(Get(prev.v, "intent"))
     /\ ~IntentIs(prev.v, "other-general")
  THEN prev.v ELSE JNull

\* what the loop finds in one turn: the parsed classification of an assistant
\* turn that holds "intent"; JNull for any other turn
previousOf(msg) ==
  IF msg.role = "assistant" /\ includes(msg.content, "intent")
  THEN takenOrNull(JSONparse(msg.content))
  ELSE JNull

\* the loop stops at the first classification found
firstFound(prev, rest) == IF prev.t # "null" THEN prev ELSE rest

\* the classification the loop stops at, scanning from turn i down to turn 1;
\* JNull if it reaches the start
RECURSIVE previousClassification(_, _)
previousClassification(context, i) ==
  IF i < 1 THEN JNull
  ELSE firstFound(previousOf(context[i]), previousClassification(context, i - 1))

\* the body of the if (prevClassification.intent && ...) block
\* merging the previous parameters without taking the previous intent
inheritFrom_ParametersOnly(classification, prevClassification) ==
  IF prevClassification.t = "null" THEN classification
  ELSE WithParameters(
         classification,
         JObj(Merge(Spread(Get(prevClassification, "parameters")),
                    Spread(Parameters(classification)))))

\* the body of the if (prevClassification.intent && ...) block: the previous
\* intent with {...previous parameters, ...new parameters}
inheritFrom(classification, prevClassification) ==
  IF prevClassification.t = "null" THEN classification
  ELSE WithParameters(
         WithIntent(classification, Get(prevClassification, "intent")),
         JObj(Merge(Spread(Get(prevClassification, "parameters")),
                    Spread(Parameters(classification)))))

inheritPreviousIntent(classification, context) ==
  inheritFrom(classification, previousClassification(context, Len(context)))

\* msg.content.match(/\[here\]\((https:\/\/.*?)\)/): the capture group, "" if none
trackingClose(s, i) == FirstIn(s, i + 15, {")", "\n"})
trackingRegex(s) ==
  LET starts == {i \in 1..Len(s) :
                   StartsAt(s, "[here](https://", i) /\ Ch(s, trackingClose(s, i)) = ")"}
  IN IF starts = {} THEN ""
     ELSE LET i == CHOOSE x \in starts : \A y \in starts : x <= y
          IN SubSeq(s, i + 7, trackingClose(s, i) - 1)

\* s.split("/").find(part => /^\d+$/.test(part)), "" if none, scanning from i
RECURSIVE firstNumericPart(_, _)
firstNumericPart(s, i) ==
  IF i > Len(s) + 1 THEN ""
  ELSE LET e == FirstIn(s, i, {"/"})
       IN IF e > i /\ RunEnd(s, i, Digits) = e THEN SubSeq(s, i, e - 1)
          ELSE firstNumericPart(s, e + 1)

RECURSIVE extractTrackingLoop(_, _, _)
extractTrackingLoop(c, context, i) ==
  IF i > Len(context) THEN [thrown |-> FALSE, value |-> c]
  ELSE LET match == trackingRegex(context[i].content)
           trackingNumber == IF match = "" THEN "" ELSE firstNumericPart(match, 1)
       IN IF trackingNumber = "" THEN extractTrackingLoop(c, context, i + 1)
          ELSE IF ~CanSetParam(c) THEN [thrown |-> TRUE, value |-> c]
          ELSE [thrown |-> FALSE,
                value |-> SetParam(c, "tracking_number", JStr(trackingNumber))]

extractTrackingFromContext(classification, context) ==
  extractTrackingLoop(classification, context, 1)

\* the branches with the new-request test ahead of the follow-up test
branchOf_NewRequestFirst(classification, context) ==
  IF isNewRequest(classification, context) THEN "newRequest"
  ELSE IF isFollowUpResponse(classification, context) THEN "followUp"
  ELSE IF IntentIs(classification, "other-general") THEN "rescue"
  ELSE "none"

\* the branch of enrichClassification that runs: follow-up, new request, the
\* other-general rescue, or none
branchOf(classification, context) ==
  IF isFollowUpResponse(classification, context) THEN "followUp"
  ELSE IF isNewRequest(classification, context) THEN "newRequest"
  ELSE IF IntentIs(classification, "other-general") THEN "rescue"
  ELSE "none"

resolveIntent(classification, context) ==
  LET branch == branchOf(classification, context)
  IN IF branch \in {"followUp", "rescue"}
     THEN inheritPreviousIntent(classification, context)
     ELSE IF branch = "newRequest" THEN classifyNewRequest(classification)
     ELSE classification

\* the steps of enrichClassification that follow the branch, up to the backfill
afterBranch(c1, context) ==
  LET r2 == IF IntentIs(c1, "delivery_issue")
            THEN extractTrackingFromContext(c1, context)
            ELSE [thrown |-> FALSE, value |-> c1]
      c2 == r2.value
      sent == \E i \in 1..Len(context) : includes(context[i].content, RETURNS_PORTAL_URL)
  IN IF r2.thrown THEN r2
     ELSE IF ~IntentIs(c2, "returns_exchange") THEN r2
     ELSE IF ~CanSetParam(c2) THEN [thrown |-> TRUE, value |-> c2]
     ELSE [thrown |-> FALSE, value |-> SetParam(c2, "returns_website_sent", JBool(sent))]

\* the last step of enrichClassification, return
\* this.extractOrderInfoFromContext(classification, context), on the outcome
\* r of the steps before it
withBefore(r, before) == [thrown |-> r.thrown, value |-> r.value, before |-> before]
backfill(r, context) ==
  IF r.thrown THEN withBefore(r, r.value)
  ELSE withBefore(extractOrderInfoFromContext(r.value, context), r.value)

\* enrichClassification(classification, context) on the sanitized context;
\* absent = TRUE when the context argument is undefined.  before is the
\* classification as it is when the backfill step starts; thrown = TRUE where
\* the code raises a TypeError (a truthy order_number or email that is not a
\* string, an assignment to a property of a primitive parameters value).
enrichClassification(classification, absent, context) ==
  IF absent \/ Len(context) = 0
  THEN [thrown |-> FALSE, value |-> classification, before |-> classification]
  ELSE IF userMessageOf(classification).t # "str"
  THEN [thrown |-> TRUE, value |-> classification, before |-> classification]
  ELSE backfill(afterBranch(resolveIntent(classification, context), context), context)

(***************************************************************************)
(* AIService.callOpenAI: the retry decisions.  A failure is a non-OK        *)
(* response with its status, or a rejected fetch (network = TRUE).         *)
(***************************************************************************)
StatusFailure(status) == [network |-> FALSE, status |-> status]
NetworkFailure == [network |-> TRUE, status |-> 0]

\* the test in the !response.ok branch
retryOnStatus(status, count) ==
  count < MAX_RETRIES /\ (status = 429 \/ status >= 500)

\* retryOnCatch with the bound included
retryOnCatch_Inclusive(count) == count <= MAX_RETRIES

\* the test in the catch block, which also receives the Error thrown in the
\* !response.ok branch
retryOnCatch(count) == count < MAX_RETRIES

\* what callOpenAI does with a failed attempt: "retry" after a backoff delay,
\* or "throw" to its caller
onFailure(failure, count) ==
  IF ~failure.network /\ retryOnStatus(failure.status, count) THEN "retry"
  ELSE IF retryOnCatch(count) THEN "retry"
  ELSE "throw"

RECURSIVE pow2(_)
pow2(n) == IF n = 0 THEN 1 ELSE 2 * pow2(n - 1)

\* RETRY_DELAY * Math.pow(2, retryCount)
backoffDelay(count) == RETRY_DELAY * pow2(count)

(***************************************************************************)
(* AIService.classifyMessage                                               *)
(***************************************************************************)
\* !message || typeof message !== "string"
invalidMessage(message) == ~Truthy(message) \/ TypeOf(message) # "string"

\* context?.map(item => ...item.role...) raises a TypeError, outside the try
\* block: context is neither nullish nor an array, or holds a nullish item
contextMapThrows(context) ==
  /\ ~Nullish(context)
  /\ \/ context.t # "arr"
     \/ \E i \in 1..Len(context.v) : Nullish(context.v[i])

\* the sanitized context of an array context
sanitizedContext(context) ==
  [i \in 1..Len(context.v) |->
     [role |-> sanitizeInput(Get(context.v[i], "role")),
      content |-> sanitizeInput(Get(context.v[i], "content"))]]

\* content.match(/\{[\s\S]*\}/): from the first "{" to the last "}", "" if none
jsonMatch(text) ==
  LET opens == {i \in 1..Len(text) : Ch(text, i) = "{"}
      first == CHOOSE i \in opens : \A j \in opens : i <= j
      closes == {i \in 1..Len(text) : Ch(text, i) = "}" /\ i > first}
  IN IF opens = {} \/ closes = {} THEN ""
     ELSE SubSeq(text, first, CHOOSE i \in closes : \A j \in closes : j <= i)

\* invalidStructure without the test of parameters
invalidStructure_IntentOnly(c) == ~Truthy(c) \/ ~Truthy(Get(c, "intent"))

\* !classification || !classification.intent || !classification.parameters
invalidStructure(c) ==
  ~Truthy(c) \/ ~Truthy(Get(c, "intent")) \/ ~Truthy(Get(c, "parameters"))

\* the inner catch of the JSON.parse of the content: the JSON object matched
\* in the content is parsed instead; no match, or a match that does not
\* parse, throws to the outer catch
parseMatch(match) == IF match = "" THEN Fail ELSE JSONparse(match)
parseContent(direct, text) == IF direct.ok THEN direct ELSE parseMatch(jsonMatch(text))

\* the outer catch: whatever enrichClassification throws gives the default
enrichedOrDefault(r) == IF r.thrown THEN getDefaultClassification ELSE r.value

\* the structure check and the call of enrichClassification
validateAndEnrich(parsed, context) ==
  IF ~parsed.ok THEN getDefaultClassification
  ELSE IF invalidStructure(parsed.v) THEN getDefaultClassification
  ELSE IF Nullish(context)
  THEN enrichedOrDefault(enrichClassification(parsed.v, TRUE, <<>>))
  ELSE enrichedOrDefault(enrichClassification(parsed.v, FALSE, sanitizedContext(context)))

\* the value classifyMessage resolves to once the language model has
\* answered with content text
classifyText(text, context) ==
  validateAndEnrich(parseContent(JSONparse(text), text), context)

(***************************************************************************)
(* The classify route                                                      *)
(***************************************************************************)
CLASSIFICATION_TIMEOUT == 30000

APIError(status, code) == [status |-> status, code |-> code]

\* the message and context the route takes from the body (formats 1 to 3)
bodyFormat(body) ==
  LET m == Get(body, "message")
      t == Get(body, "text")
  IN IF Truthy(m) /\ TypeOf(m) = "string" THEN 1
     ELSE IF Truthy(m) /\ TypeOf(m) = "object" /\ Truthy(Get(m, "text")) THEN 2
     ELSE IF Truthy(t) /\ TypeOf(t) = "string" THEN 3
     ELSE 0

bodyMessage(body) ==
  CASE bodyFormat(body) = 1 -> Get(body, "message")
    [] bodyFormat(body) = 2 -> Get(Get(body, "message"), "text")
    [] OTHER -> Get(body, "text")

\* the "Validate context if provided" test
invalidContext(context) ==
  /\ Truthy(context)
  /\ \/ context.t # "arr"
     \/ ~ \A i \in 1..Len(context.v) :
            LET item == context.v[i]
            IN /\ Truthy(item)
               /\ TypeOf(item) = "object"
               /\ TypeOf(Get(item, "role")) = "string"
               /\ TypeOf(Get(item, "content")) = "string"

\* the APIError the validation throws, NoError if the request passes
NoError == APIError(0, "")
validationError(req) ==
  IF ~(req.contentType.t = "str" /\ includes(req.contentType.v, "application/json"))
  THEN APIError(415, "INVALID_CONTENT_TYPE")
  ELSE IF req.malformed THEN APIError(400, "INVALID_JSON")
  ELSE IF bodyFormat(req.body) = 0 THEN APIError(400, "INVALID_FORMAT")
  ELSE IF invalidMessage(bodyMessage(req.body)) THEN APIError(400, "INVALID_MESSAGE")
  ELSE IF invalidContext(Get(req.body, "context")) THEN APIError(400, "INVALID_CONTEXT")
  ELSE NoError

\* the checks on the value the race resolved to
resultError(c) ==
  IF ~Truthy(c) THEN APIError(500, "CLASSIFICATION_FAILED")
  ELSE IF ~Truthy(Get(c, "intent")) THEN APIError(500, "CLASSIFICATION_INTENT_MISSING")
  ELSE IF ~Truthy(Get(c, "parameters"))
  THEN APIError(500, "CLASSIFICATION_PARAMETERS_MISSING")
  ELSE NoError

\* handleError: an APIError is answered with its status and code, any other
\* error with 500
InternalError == APIError(500, "INTERNAL_ERROR")
handleError(error) == [status |-> error.status, code |-> error.code, body |-> JUndef]

\* the body of the response to a classification that passed the checks: only
\* the intent and the parameters
classifyBody(c) ==
  JObj([intent |-> Get(c, "intent"), parameters |-> Get(c, "parameters")])

(***************************************************************************)
(* Inputs                                                                  *)
(***************************************************************************)
MaxClock == 34000
MaxCtx == 3

Turn(role, content) == JObj([role |-> JStr(role), content |-> JStr(content)])

PrevReturns ==
  "{\"intent\":\"returns_exchange\",\"parameters\":{\"order_number\":\"#9999\",\"size_query\":\"M\"}}"
PrevTracking ==
  "{\"intent\":\"order_tracking\",\"parameters\":{\"email\":\"bob@mail.com\"}}"
PrevGeneral == "{\"intent\":\"other-general\",\"parameters\":{\"height\":\"180\"}}"

UserTurn == [role |-> "user", content |-> "mi pedido #5678 ana@mail.com"]
AskOrderTurn == [role |-> "assistant", content |-> "What is your order number?"]
ClosingTurn == [role |-> "assistant", content |-> "Gracias, que tengas un buen dia"]
PrevReturnsTurn == [role |-> "assistant", content |-> PrevReturns]
PrevTrackingTurn == [role |-> "assistant", content |-> PrevTracking]
PrevGeneralTurn == [role |-> "assistant", content |-> PrevGeneral]
SystemTurn == [role |-> "system", content |-> "Escribe a soporte@shop.com sobre el pedido #4321"]

Turns ==
  {UserTurn, AskOrderTurn, ClosingTurn, PrevReturnsTurn, PrevTrackingTurn, PrevGeneralTurn,
   SystemTurn}

\* the contexts of the resolver: every sequence of at most MaxCtx turns
RECURSIVE ContextsOfLen(_)
ContextsOfLen(n) ==
  IF n = 0 THEN {<<>>}
  ELSE {Append(c, t) : c \in ContextsOfLen(n - 1), t \in Turns}
Contexts == UNION {ContextsOfLen(n) : n \in 0..MaxCtx}

\* the classifications the resolver receives: what the language model
\* extracted, with all the slots of the prompt or with the two identity slots
Extracted ==
  {[order_number |-> "", email |-> ""],
   [order_number |-> "#1234", email |-> ""],
   [order_number |-> "otro pedido track", email |-> ""],
   [order_number |-> "", email |-> "eva@mail.com"]}
Classified(intent, x, full) ==
  JObj([intent |-> JStr(intent),
        parameters |-> JObj(IF full
                            THEN [order_number |-> JStr(x.order_number),
                                  email |-> JStr(x.email)] @@ DefaultParameters
                            ELSE [order_number |-> JStr(x.order_number),
                                  email |-> JStr(x.email)]),
        language |-> JStr("Spanish")])
Classifications ==
  {Classified(i, x, TRUE) : i \in {"other-general", "order_tracking"}, x \in Extracted}
  \cup {Classified(i, x, TRUE) : i \in {"delivery_issue", "returns_exchange"},
                                 x \in {y \in Extracted : y.email = ""}}
  \cup {Classified("order_tracking", x, FALSE) : x \in {y \in Extracted : y.email = ""}}

JsTurn(t) == Turn(t.role, t.content)
ValidContexts ==
  {JArr(<<>>),
   JArr(<<JsTurn(UserTurn), JsTurn(AskOrderTurn)>>),
   JArr(<<JsTurn(PrevReturnsTurn), JsTurn(ClosingTurn)>>)}
MalformedContexts ==
  {JStr("ctx"), JStr(""), JNum(0), JBool(FALSE), JObj(EmptyMap),
   JArr(<<JNull>>), JArr(<<JNum(5)>>), JArr(<<JObj([role |-> JStr("user")])>>)}

Message == JStr("quiero localizar otro pedido")

Bodies ==
  {JObj([message |-> Message]),
   JObj([message |-> JObj([text |-> Message])]),
   JObj([text |-> Message]),
   JObj(EmptyMap),
   JObj([message |-> JNum(5)]),
   JObj([message |-> JStr("")]),
   JObj([message |-> JObj([text |-> JNum(5)])]),
   JObj([message |-> Message, context |-> JNull])}
  \cup {JObj([message |-> Message, context |-> c]) : c \in ValidContexts \cup MalformedContexts}

Requests ==
  {[contentType |-> ct, malformed |-> FALSE, body |-> JObj([message |-> Message])] :
     ct \in {JNull, JStr("text/plain")}}
  \cup {[contentType |-> JStr("application/json"), malformed |-> TRUE, body |-> JUndef]}
  \cup {[contentType |-> JStr("application/json; charset=utf-8"), malformed |-> FALSE,
         body |-> b] : b \in Bodies}

\* the arguments of a call of classifyMessage from other code
DirectArgs ==
  {[message |-> m, context |-> JUndef] : m \in {JUndef, JNull, JStr(""), JNum(5)}}
  \cup {[message |-> Message, context |-> c] : c \in ValidContexts \cup MalformedContexts}

\* what the language-model call can come back with: a failure, a response
\* whose body is not a completion, or a completion with one of these contents
FailStatuses == {400, 401, 429, 503}
Failures == {StatusFailure(s) : s \in FailStatuses} \cup {NetworkFailure}
TextTracking ==
  "{\"intent\":\"order_tracking\",\"parameters\":{\"order_number\":\"#1234\",\"email\":\"\"},\"language\":\"Spanish\"}"
TextGeneral ==
  "{\"intent\":\"other-general\",\"parameters\":{\"order_number\":\"\",\"email\":\"\"},\"language\":\"Spanish\"}"
TextWrapped == "Sure: {\"intent\":\"order_tracking\",\"parameters\":{\"email\":\"eva@mail.com\"}} ok"
TextNoParameters == "{\"intent\":\"order_tracking\"}"
TextNoIntent == "{\"parameters\":{\"order_number\":\"#1234\"}}"
TextPlain == "I cannot classify this"
TextBroken == "intent {order_tracking} parameters {}"
TextNull == "null"
TextNumber == "{\"intent\":\"order_tracking\",\"parameters\":{\"order_number\":1234}}"
Texts ==
  {TextTracking, TextGeneral, TextWrapped, TextNoParameters, TextNoIntent, TextPlain,
   TextBroken, TextNull, TextNumber}

(***************************************************************************)
(* State                                                                   *)
(***************************************************************************)
VARIABLES
  request,        \* the HTTP request the classify route received
  pc,             \* the route: "start", "racing", "responded"; "direct" for a
                  \* call of classifyMessage from other code; "off"
  responses,      \* the HTTP responses the route has sent
  raceStart,      \* the time Promise.race started, the timer armed
  cmState,        \* classifyMessage: "idle", "fetching", "backoff", "settled"
  cmArgs,         \* its arguments [message, context]
  retryCount,     \* the retryCount argument of the running callOpenAI
  attempts,       \* the number of fetch calls made so far
  backoffs,       \* the backoff delays waited so far
  lastFailure,    \* the failure that the running backoff delay follows, or
                  \* that callOpenAI threw
  wakeAt,         \* the time the running backoff delay ends
  coState,        \* callOpenAI: "none", "running", "returned", "threw"
  llmText,        \* the content of the completion callOpenAI returned
  cmResult,       \* what the promise of classifyMessage settled to
  clock,          \* the time in ms; it stands still once nothing is pending
  classification, \* the resolver: the classification to enrich
  context,        \* the resolver: the sanitized context
  resolved,       \* the resolver: what enrichClassification returned
  chatRequest,    \* the HTTP request the chat route received
  chatPc,         \* the chat route: "start", "classifying", "updatingTicket",
                  \* "handling", "responded"; "off"
  classifyReply,  \* the response of the classify endpoint to the chat route
  chatClassification, \* the classification it read from the classify response
  handlerState,   \* intentHandler: "none", "external", "tracking",
                  \* "generating", "settled"
  handlerResult,  \* what the promise of intentHandler settled to
  trackCalls,     \* the number of trackOrder calls of the chat route
  answerCalls,    \* the number of language-model calls made for the chat route
  chatRaceStart,  \* the time the race of the chat route started
  chatResponses,  \* the HTTP responses the chat route has sent
  gfaArgs,        \* generateFinalAnswer: its arguments
  gfaState,       \* "idle", "calling" (callOpenAI awaited), "settled"; "off"
  gfaLlmCalls,    \* the number of callOpenAI calls it made
  gfaResult,      \* what its promise settled to
  address,        \* validateAddress: its argument
  vaState,        \* "idle", "fetching", "settled"; "off"
  geoReply,       \* the answer of the geocoding provider
  vaResult,       \* what the promise of validateAddress settled to
  sanInput,       \* the sanitizer: the input string
  sanOnce,        \* sanitizeInput(input), undefined before the call
  sanTwice,       \* sanitizeInput(sanitizeInput(input)), undefined before the call
  rateLimits,     \* the answer route: the rate-limit entry of the client
  responseCache,  \* the answer route: cache key -> [response, timestamp]
  inFlight,       \* the answer route: the requests awaiting generateFinalAnswer
  nextRequest,    \* the answer route: the number of the next request
  answerResponses, \* the answer route: the HTTP responses sent, by request
  rateLimitMap,   \* the validate-address route: the rate-limit entry of the client
  externalInFlight, \* the validate-address route: the requests awaiting validateAddress
  externalResponses \* the validate-address route: the HTTP responses sent

routeVars == <<request, pc, responses, raceStart>>
cmVars == <<cmState, cmArgs, retryCount, attempts, backoffs, lastFailure, wakeAt,
            coState, llmText, cmResult>>
resolverVars == <<classification, context, resolved>>
chatVars == <<chatRequest, chatPc, classifyReply, chatClassification, handlerState, handlerResult,
              trackCalls, answerCalls, chatRaceStart, chatResponses>>
gfaVars == <<gfaArgs, gfaState, gfaLlmCalls, gfaResult>>
addressVars == <<address, vaState, geoReply, vaResult>>
sanitizerVars == <<sanInput, sanOnce, sanTwice>>
answerVars == <<rateLimits, responseCache, inFlight, nextRequest, answerResponses>>
externalVars == <<rateLimitMap, externalInFlight, externalResponses>>
serviceVars == <<chatVars, gfaVars, addressVars, sanitizerVars, answerVars, externalVars>>
vars == <<routeVars, cmVars, clock, resolverVars, serviceVars>>

NoArgs == [message |-> JUndef, context |-> JUndef]
NoRequest == [contentType |-> JNull, malformed |-> FALSE, body |-> JUndef]
NoFailure == [network |-> FALSE, status |-> 200]
Unsettled == [kind |-> "none", value |-> JUndef]
Resolved(value) == [kind |-> "resolved", value |-> value]
Rejected == [kind |-> "rejected", value |-> JUndef]
Pending == [state |-> "pending", thrown |-> FALSE, value |-> JUndef, before |-> JUndef]

cmIdle ==
  /\ cmState = "idle"
  /\ retryCount = 0
  /\ attempts = 0
  /\ backoffs = <<>>
  /\ lastFailure = NoFailure
  /\ wakeAt = 0
  /\ coState = "none"
  /\ llmText = ""
  /\ cmResult = Unsettled

resolverOff ==
  /\ classification = JUndef
  /\ context = <<>>
  /\ resolved = Pending

chatOff ==
  /\ chatRequest = NoRequest
  /\ chatPc = "off"
  /\ classifyReply = JUndef
  /\ chatClassification = JUndef
  /\ handlerState = "none"
  /\ handlerResult = Unsettled
  /\ trackCalls = 0
  /\ answerCalls = 0
  /\ chatRaceStart = 0
  /\ chatResponses = <<>>

gfaOff ==
  /\ gfaArgs = JUndef
  /\ gfaState = "off"
  /\ gfaLlmCalls = 0
  /\ gfaResult = Unsettled

addressOff ==
  /\ address = JUndef
  /\ vaState = "off"
  /\ geoReply = JUndef
  /\ vaResult = Unsettled

sanitizerOff ==
  /\ sanInput = ""
  /\ sanOnce = JUndef
  /\ sanTwice = JUndef

answerOff ==
  /\ rateLimits = JUndef
  /\ responseCache = <<>>
  /\ inFlight = {}
  /\ nextRequest = 0
  /\ answerResponses = <<>>

externalOff ==
  /\ rateLimitMap = JUndef
  /\ externalInFlight = {}
  /\ externalResponses = <<>>

\* a request arrives at the classify route, or other code is about to call
\* classifyMessage
Init ==
  /\ \/ /\ request \in Requests
        /\ pc = "start"
        /\ cmArgs = NoArgs
     \/ /\ request = NoRequest
        /\ pc = "direct"
        /\ cmArgs \in DirectArgs
  /\ responses = <<>>
  /\ raceStart = 0
  /\ cmIdle
  /\ clock = 0
  /\ resolverOff
  /\ chatOff /\ gfaOff /\ addressOff /\ sanitizerOff /\ answerOff /\ externalOff

(***************************************************************************)
(* classifyMessage and callOpenAI                                          *)
(***************************************************************************)
\* classifyMessage(message, ctx) up to its first await: the default for an
\* invalid message, a rejection when mapping the context throws, otherwise
\* the first fetch of callOpenAI(messages) is in flight
Invoke(message, ctx) ==
  /\ cmArgs' = [message |-> message, context |-> ctx]
  /\ IF invalidMessage(message)
     THEN /\ cmState' = "settled"
          /\ cmResult' = Resolved(getDefaultClassification)
          /\ UNCHANGED <<attempts, coState>>
     ELSE IF contextMapThrows(ctx)
     THEN /\ cmState' = "settled"
          /\ cmResult' = Rejected
          /\ UNCHANGED <<attempts, coState>>
     ELSE /\ cmState' = "fetching"
          /\ attempts' = 1
          /\ coState' = "running"
          /\ UNCHANGED cmResult
  /\ UNCHANGED <<retryCount, backoffs, lastFailure, wakeAt, llmText>>

DirectCall ==
  /\ pc = "direct"
  /\ cmState = "idle"
  /\ Invoke(cmArgs.message, cmArgs.context)
  /\ UNCHANGED <<routeVars, clock, resolverVars, serviceVars>>

\* the fetch in flight fails: callOpenAI waits the backoff delay and calls
\* itself with retryCount + 1, or throws; classifyMessage catches what it
\* throws and returns the default classification
FetchFail(failure) ==
  /\ cmState = "fetching"
  /\ lastFailure' = failure
  /\ IF onFailure(failure, retryCount) = "retry"
     THEN /\ cmState' = "backoff"
          /\ wakeAt' = clock + backoffDelay(retryCount)
          /\ backoffs' = Append(backoffs, backoffDelay(retryCount))
          /\ UNCHANGED <<coState, cmResult>>
     ELSE /\ cmState' = "settled"
          /\ coState' = "threw"
          /\ cmResult' = Resolved(getDefaultClassification)
          /\ UNCHANGED <<wakeAt, backoffs>>
  /\ UNCHANGED <<cmArgs, retryCount, attempts, llmText>>
  /\ UNCHANGED <<routeVars, clock, resolverVars, serviceVars>>

\* the backoff delay is over: the recursive call fetches again
BackoffDone ==
  /\ cmState = "backoff"
  /\ clock >= wakeAt
  /\ cmState' = "fetching"
  /\ retryCount' = retryCount + 1
  /\ attempts' = attempts + 1
  /\ lastFailure' = NoFailure
  /\ wakeAt' = 0
  /\ UNCHANGED <<cmArgs, backoffs, coState, llmText, cmResult>>
  /\ UNCHANGED <<routeVars, clock, resolverVars, serviceVars>>

\* the fetch in flight answers 200 with a completion whose content is text
FetchOk(text) ==
  /\ cmState = "fetching"
  /\ cmState' = "settled"
  /\ coState' = "returned"
  /\ llmText' = text
  /\ cmResult' = Resolved(classifyText(text, cmArgs.context))
  /\ UNCHANGED <<cmArgs, retryCount, attempts, backoffs, lastFailure, wakeAt>>
  /\ UNCHANGED <<routeVars, clock, resolverVars, serviceVars>>

\* the fetch in flight answers 200 with a body that is not JSON: the promise
\* of response.json(), returned without await, rejects past the catch block
FetchBadBody ==
  /\ cmState = "fetching"
  /\ cmState' = "settled"
  /\ coState' = "threw"
  /\ cmResult' = Resolved(getDefaultClassification)
  /\ UNCHANGED <<cmArgs, retryCount, attempts, backoffs, lastFailure, wakeAt, llmText>>
  /\ UNCHANGED <<routeVars, clock, resolverVars, serviceVars>>

(***************************************************************************)
(* The classify route                                                      *)
(***************************************************************************)
\* timerDue with the timer firing one step late
timerDue_Late == pc = "racing" /\ clock > raceStart + CLASSIFICATION_TIMEOUT

\* the timer of the race has run out
timerDue == pc = "racing" /\ clock >= raceStart + CLASSIFICATION_TIMEOUT

\* POST up to the await of Promise.race: a request that fails validation is
\* answered through handleError, any other one calls classifyMessage and
\* arms the timer
RouteValidate ==
  /\ pc = "start"
  /\ LET err == validationError(request)
     IN IF err # NoError
        THEN /\ responses' = Append(responses, handleError(err))
             /\ pc' = "responded"
             /\ UNCHANGED <<raceStart, cmVars>>
        ELSE /\ Invoke(bodyMessage(request.body), Get(request.body, "context"))
             /\ pc' = "racing"
             /\ raceStart' = clock
             /\ UNCHANGED responses
  /\ UNCHANGED <<request, clock, resolverVars, serviceVars>>

\* classifyMessage settled first: the rest of POST
RouteFinish ==
  /\ pc = "racing"
  /\ cmState = "settled"
  /\ pc' = "responded"
  /\ responses' =
       Append(responses,
              IF cmResult.kind = "rejected" THEN handleError(InternalError)
              ELSE IF resultError(cmResult.value) # NoError
              THEN handleError(resultError(cmResult.value))
              ELSE [status |-> 200, code |-> "",
                    body |-> classifyBody(cmResult.value)])
  /\ UNCHANGED <<request, raceStart, cmVars, clock, resolverVars, serviceVars>>

\* the timer fired first: the race rejects with the timeout error
Timeout ==
  /\ timerDue
  /\ cmState # "settled"
  /\ pc' = "responded"
  /\ responses' = Append(responses, handleError(APIError(408, "CLASSIFICATION_TIMEOUT")))
  /\ UNCHANGED <<request, raceStart, cmVars, clock, resolverVars, serviceVars>>

\* time passes while a fetch or a backoff delay is pending; a timer that is
\* due fires before time passes further
Tick ==
  /\ cmState \in {"fetching", "backoff"}
  /\ ~(cmState = "backoff" /\ clock >= wakeAt)
  /\ ~timerDue
  /\ clock < MaxClock
  /\ clock' = clock + RETRY_DELAY
  /\ UNCHANGED <<routeVars, cmVars, resolverVars, serviceVars>>

Next ==
  \/ RouteValidate
  \/ DirectCall
  \/ \E failure \in Failures : FetchFail(failure)
  \/ BackoffDone
  \/ \E text \in Texts : FetchOk(text)
  \/ FetchBadBody
  \/ RouteFinish
  \/ Timeout
  \/ Tick

Spec == Init /\ [][Next]_vars

(***************************************************************************)
(* The context resolver on its own: enrichClassification applied to every  *)
(* classification and context of the input sets                            *)
(***************************************************************************)
InitResolver ==
  /\ request = NoRequest
  /\ pc = "off"
  /\ cmArgs = NoArgs
  /\ responses = <<>>
  /\ raceStart = 0
  /\ cmIdle
  /\ clock = 0
  /\ classification \in Classifications
  /\ context \in Contexts
  /\ resolved = Pending
  /\ chatOff /\ gfaOff /\ addressOff /\ sanitizerOff /\ answerOff /\ externalOff

Enrich ==
  /\ pc = "off"
  /\ resolved.state = "pending"
  /\ resolved' = [state |-> "done"] @@ enrichClassification(classification, FALSE, context)
  /\ UNCHANGED <<routeVars, cmVars, clock, classification, context, serviceVars>>

NextResolver == Enrich

SpecResolver == InitResolver /\ [][NextResolver]_vars

(***************************************************************************)
(* Properties of classifyMessage, callOpenAI and the classify route        *)
(* (specification Spec)                                                    *)
(***************************************************************************)
\* two values are the same value: the same type and, for an object or an
\* array, the same members
RECURSIVE SameValue(_, _)
SameValue(a, b) ==
  /\ a.t = b.t
  /\ IF a.t = "obj"
     THEN DOMAIN a.v = DOMAIN b.v /\ \A k \in DOMAIN a.v : SameValue(a.v[k], b.v[k])
     ELSE IF a.t = "arr"
     THEN Len(a.v) = Len(b.v) /\ \A i \in 1..Len(a.v) : SameValue(a.v[i], b.v[i])
     ELSE a.v = b.v

\* classifyMessage resolved to the default classification
resolvedToDefault ==
  cmResult.kind = "resolved" /\ SameValue(cmResult.value, getDefaultClassification)

\* the text, or a substring of it from a "{" to a "}", parses as JSON into an
\* object with an intent and parameters
WellFormed(text) ==
  \E c \in {text} \cup {SubSeq(text, i, j) : i, j \in {k \in 1..Len(text) : Ch(text, k) \in {"{", "}"}}} :
    /\ Len(c) >= 2
    /\ JSONparse(c).ok
    /\ JSONparse(c).v.t = "obj"
    /\ Truthy(Get(JSONparse(c).v, "intent"))
    /\ Truthy(Get(JSONparse(c).v, "parameters"))

\* C1: when the language-model call has failed (callOpenAI threw), or the
\* completion it returned cannot be parsed into an object with both intent
\* and parameters, classifyMessage has resolved, not rejected, and to exactly
\* the default classification.
C1_DefaultOnFailure ==
  (cmState = "settled"
   /\ (coState = "threw" \/ (coState = "returned" /\ ~WellFormed(llmText))))
  => resolvedToDefault

\* a completion that holds braces but no JSON was answered with the default
\* although the context is not empty
C1_Witness ==
  /\ cmState = "settled"
  /\ coState = "returned"
  /\ ~WellFormed(llmText)
  /\ jsonMatch(llmText) # ""
  /\ cmArgs.context.t = "arr"
  /\ Len(cmArgs.context.v) > 0
  /\ resolvedToDefault

\* C2 (as claimed): a call of classifyMessage with a missing, empty or
\* non-string message, or with a context that is not an array of turns, never
\* rejects: it settles to the default classification.
C2_NeverRejects ==
  (pc = "direct" /\ cmState = "settled"
   /\ (invalidMessage(cmArgs.message) \/ cmArgs.context \in MalformedContexts))
  => resolvedToDefault

\* C7 (as claimed): one callOpenAI invocation makes at most 3 attempts.
C7_AtMostThreeAttempts == attempts <= 3

\* C7 (amended): one callOpenAI invocation makes at most 4 attempts, the
\* first one and three retries; no backoff delay follows the fourth attempt,
\* and when the fourth attempt fails the error is thrown to the caller.
C7_AtMostFourAttempts ==
  /\ attempts <= 4
  /\ cmState = "backoff" => attempts <= 3
  /\ (attempts = 4 /\ cmState = "settled" /\ lastFailure # NoFailure) => coState = "threw"

\* four attempts were answered 429 and callOpenAI threw
C7_Witness ==
  /\ attempts = 4
  /\ coState = "threw"
  /\ lastFailure = StatusFailure(429)
  /\ backoffs = <<1000, 2000, 4000>>

\* C8 (as claimed): a non-OK response whose status is neither 429 nor 5xx is
\* not retried: no backoff delay follows it, callOpenAI fails after that
\* single attempt.
C8_NoRetryOnOtherStatus ==
  (~lastFailure.network /\ lastFailure.status \in 400..499 /\ lastFailure.status # 429)
  => (cmState # "backoff" /\ attempts = 1)

\* C9: while the route waits for classifyMessage no more than 30000 ms pass;
\* the route answers at most once; and when classifyMessage had not settled
\* within 30000 ms of the start of the race (it is still pending, or it
\* settled later), the answer is 408 CLASSIFICATION_TIMEOUT.
C9_ClassificationTimeout ==
  /\ pc = "racing" => clock <= raceStart + 30000
  /\ Len(responses) <= 1
  /\ (pc = "responded" /\ cmState # "idle"
      /\ (cmState # "settled" \/ clock > raceStart + 30000))
     => (responses[1].status = 408 /\ responses[1].code = "CLASSIFICATION_TIMEOUT")

\* the route answered 408 and classifyMessage settled afterwards
C9_Witness ==
  /\ pc = "responded"
  /\ responses = <<handleError(APIError(408, "CLASSIFICATION_TIMEOUT"))>>
  /\ cmState = "settled"
  /\ clock > raceStart + 30000

\* a request that the claim calls invalid: the content type is not JSON, the
\* body is not JSON, the message is missing or not a string, or a context is
\* given that is not an array of {role: string, content: string}
InvalidRequest(req) ==
  \/ ~(req.contentType.t = "str" /\ includes(req.contentType.v, "application/json"))
  \/ req.malformed
  \/ bodyFormat(req.body) = 0
  \/ bodyMessage(req.body).t # "str"
  \/ LET ctx == Get(req.body, "context")
     IN /\ ~Nullish(ctx)
        /\ \/ ctx.t # "arr"
           \/ \E i \in 1..Len(ctx.v) :
                \/ ctx.v[i].t # "obj"
                \/ Get(ctx.v[i], "role").t # "str"
                \/ Get(ctx.v[i], "content").t # "str"

\* C10 (as claimed): a request that fails input validation never reaches
\* classifyMessage and is answered 415 (content type) or 400 (anything else).
C10_InvalidNeverClassified ==
  (pc \in {"start", "racing", "responded"} /\ InvalidRequest(request))
  => /\ cmState = "idle"
     /\ pc # "racing"
     /\ pc = "responded" =>
          responses[1].status =
            (IF ~(request.contentType.t = "str"
                  /\ includes(request.contentType.v, "application/json"))
             THEN 415 ELSE 400)

(***************************************************************************)
(* Properties of the context resolver (specification SpecResolver)         *)
(***************************************************************************)
done == resolved.state = "done" /\ ~resolved.thrown

\* the field the resolver reads as the text of the new turn
extracted == userMessageOf(classification).v

\* the parameters of the classification received and of the one returned
newParams == Spread(Parameters(classification))
outParams == Spread(Parameters(resolved.value))

\* the last turn of the context whose role is assistant, 0 if none
lastAssistant ==
  LET idx == {i \in 1..Len(context) : context[i].role = "assistant"}
  IN IF idx = {} THEN 0 ELSE CHOOSE i \in idx : \A j \in idx : j <= i

\* turn i is an assistant turn whose content parses as JSON with an intent
\* other than "other-general"
priorClassification(i) ==
  /\ context[i].role = "assistant"
  /\ LET parsed == JSONparse(context[i].content)
     IN /\ parsed.ok
        /\ parsed.v.t = "obj"
        /\ Truthy(Get(parsed.v, "intent"))
        /\ ~IntentIs(parsed.v, "other-general")

\* the nearest such turn, scanning backwards; 0 if none
nearestPrior ==
  LET idx == {i \in 1..Len(context) : priorClassification(i)}
  IN IF idx = {} THEN 0 ELSE CHOOSE i \in idx : \A j \in idx : j <= i

priorOf(i) == JSONparse(context[i].content).v

\* two parameter maps hold the same keys with the same values
SameParams(a, b) == DOMAIN a = DOMAIN b /\ \A k \in DOMAIN a : SameValue(a[k], b[k])

\* C3 (as claimed): when the last assistant turn contains "gracias" and the
\* new turn contains "otro pedido" and "track", the classification returned
\* has every parameter at its default, order_number and email included, and
\* the intent order_tracking.
C3_NewRequestReset ==
  (/\ done
   /\ lastAssistant # 0
   /\ includes(toLowerCase(context[lastAssistant].content), "gracias")
   /\ includes(toLowerCase(extracted), "otro pedido")
   /\ includes(toLowerCase(extracted), "track"))
  => /\ IntentIs(resolved.value, "order_tracking")
     /\ SameParams(outParams, DefaultParameters)

\* the case of C4: the context ends in an assistant turn that contains "order
\* number", the extracted order_number matches #<4+ digits>, and a prior
\* classification exists
followUpCase ==
  /\ done
  /\ Len(context) > 0
  /\ context[Len(context)].role = "assistant"
  /\ includes(toLowerCase(context[Len(context)].content), "order number")
  /\ Param(classification, "order_number").t = "str"
  /\ orderNumberRegex(Param(classification, "order_number").v) # ""
  /\ nearestPrior # 0

\* {...previous parameters, ...new parameters}
unionOf(prior) ==
  LET previous == Spread(Get(prior, "parameters"))
      new == newParams
  IN [k \in DOMAIN previous \cup DOMAIN new |->
        IF k \in DOMAIN new THEN new[k] ELSE previous[k]]

\* C4 (as claimed): in the follow-up case the resolved intent is the intent
\* of the nearest prior classification and the resolved parameters are the
\* union of its parameters and the new ones, the new value winning on every
\* key present in both.
C4_FollowUpUnion ==
  followUpCase
  => LET prior == priorOf(nearestPrior)
     IN /\ SameValue(Intent(resolved.value), Intent(prior))
        /\ SameParams(outParams, unionOf(prior))

\* the email of the earliest user turn that holds one, "" if none
RECURSIVE firstUserEmail(_)
firstUserEmail(i) ==
  IF i > Len(context) THEN ""
  ELSE LET found == IF context[i].role = "user" THEN emailRegex(context[i].content) ELSE ""
       IN IF found # "" THEN found ELSE firstUserEmail(i + 1)

\* the slots that the steps after the merge recompute
RecomputedSlots == {"email", "tracking_number", "returns_website_sent"}

\* C4 (amended): in the follow-up case the resolved intent is the intent of
\* the nearest prior classification, and the resolved parameters are the
\* union of its parameters and the new ones, the new value winning on every
\* key present in both, except for what the later steps recompute: an email
\* that the union leaves empty is filled from the earliest user turn that
\* holds one, returns_website_sent is recomputed when the inherited intent is
\* returns_exchange, and tracking_number may be replaced when it is
\* delivery_issue.
C4_FollowUpUnionThenBackfill ==
  followUpCase
  => LET prior == priorOf(nearestPrior)
         union == unionOf(prior)
         out == outParams
         userEmail == firstUserEmail(1)
     IN /\ SameValue(Intent(resolved.value), Intent(prior))
        /\ DOMAIN union \subseteq DOMAIN out
        /\ DOMAIN out \subseteq DOMAIN union \cup RecomputedSlots
        /\ \A k \in DOMAIN union \ RecomputedSlots : SameValue(out[k], union[k])
        /\ IF "email" \in DOMAIN union /\ Truthy(union["email"])
           THEN SameValue(out["email"], union["email"])
           ELSE IF userEmail # ""
           THEN SameValue(out["email"], JStr(userEmail))
           ELSE "email" \in DOMAIN out
                => ("email" \in DOMAIN union /\ SameValue(out["email"], union["email"]))
        /\ IF IntentIs(resolved.value, "returns_exchange")
           THEN SameValue(out["returns_website_sent"],
                          JBool(\E i \in 1..Len(context) :
                                  includes(context[i].content, RETURNS_PORTAL_URL)))
           ELSE "returns_website_sent" \in DOMAIN out
                => ("returns_website_sent" \in DOMAIN union
                    /\ SameValue(out["returns_website_sent"], union["returns_website_sent"]))
        /\ ~IntentIs(resolved.value, "delivery_issue")
           => ("tracking_number" \in DOMAIN out
               => ("tracking_number" \in DOMAIN union
                   /\ SameValue(out["tracking_number"], union["tracking_number"])))

\* a follow-up that inherits from the nearer of two different prior
\* classifications, a new empty size_query overriding the previous one
C4_Witness ==
  /\ followUpCase
  /\ \E i \in 1..(nearestPrior - 1) :
       /\ priorClassification(i)
       /\ ~SameValue(Intent(priorOf(i)), Intent(priorOf(nearestPrior)))
  /\ ~SameValue(Intent(classification), Intent(resolved.value))
  /\ "size_query" \in DOMAIN outParams
  /\ SameValue(outParams["size_query"], JStr(""))
  /\ SameValue(Get(Get(priorOf(nearestPrior), "parameters"), "size_query"), JStr("M"))

\* what the first n turns hold as classifications: the parsed content of an
\* assistant turn that is JSON, null for any other turn
RECURSIVE priorsUpTo(_)
priorsUpTo(n) ==
  IF n = 0 THEN <<>>
  ELSE Append(priorsUpTo(n - 1),
              IF context[n].role = "assistant" /\ JSONparse(context[n].content).ok
              THEN priorOf(n) ELSE JNull)

\* C5: a parameter value of the returned classification that comes from a
\* prior assistant classification (the classification received did not hold
\* it) is there only if the resolved intent is that prior classification's
\* intent.
C5_NoLeakAcrossIntents ==
  done =>
    LET prior == priorsUpTo(Len(context))
        out == outParams
        new == newParams
    IN \A k \in DOMAIN out :
         LET sources == {i \in 1..Len(context) :
                           /\ Truthy(Get(Get(prior[i], "parameters"), k))
                           /\ SameValue(Get(Get(prior[i], "parameters"), k), out[k])}
         IN (sources # {} /\ ~(k \in DOMAIN new /\ SameValue(new[k], out[k])))
            => \E i \in sources : SameValue(Intent(resolved.value), Intent(prior[i]))

\* the size query of a previous returns classification was inherited by a
\* turn that the language model had classified otherwise
C5_Witness ==
  /\ done
  /\ "size_query" \in DOMAIN outParams
  /\ SameValue(outParams["size_query"], JStr("M"))
  /\ IntentIs(classification, "order_tracking")
  /\ IntentIs(resolved.value, "returns_exchange")

\* the classification as it is when extractOrderInfoFromContext is called
beforeBackfill == resolved.before

\* C6: the backfill reads user turns only: a value of order_number or email
\* that extractOrderInfoFromContext has put in is matched by the order-number
\* or email pattern in a turn whose role is user.
C6_BackfillUserTurnsOnly ==
  (done /\ Len(context) > 0) =>
    LET before == beforeBackfill
        order == Param(resolved.value, "order_number")
        email == Param(resolved.value, "email")
    IN /\ ~SameValue(order, Param(before, "order_number"))
          => \E i \in 1..Len(context) :
               /\ context[i].role = "user"
               /\ SameValue(JStr(orderNumberRegex(context[i].content)), order)
       /\ ~SameValue(email, Param(before, "email"))
          => \E i \in 1..Len(context) :
               /\ context[i].role = "user"
               /\ SameValue(JStr(emailRegex(context[i].content)), email)

\* the context starts with a system turn that holds an email and an order
\* token, and the backfill took both from the user turn that follows
C6_Witness ==
  /\ done
  /\ Len(context) >= 2
  /\ context[1].role = "system"
  /\ emailRegex(context[1].content) # ""
  /\ orderNumberRegex(context[1].content) # ""
  /\ ~Truthy(Param(beforeBackfill, "email"))
  /\ ~Truthy(Param(beforeBackfill, "order_number"))
  /\ SameValue(Param(resolved.value, "email"), JStr("ana@mail.com"))
  /\ SameValue(Param(resolved.value, "order_number"), JStr("5678"))

(***************************************************************************)
(* AIService.generateFinalAnswer                                           *)
(***************************************************************************)
\* the canned replies of utils/cache, named by their keys
commonResponses ==
  [conversationEnd |-> [es |-> "commonResponses.conversationEnd.es",
                        en |-> "commonResponses.conversationEnd.en"],
   error |-> [es |-> "commonResponses.error.es", en |-> "commonResponses.error.en"]]

\* the helper of intents/utils: the Spanish text for Spanish, the English
\* text for any other language
getLanguageSpecificResponse(es, en, language) ==
  IF language.t = "str" /\ language.v = "Spanish" THEN es ELSE en

\* x[i] for an array x, i counted from 0
At(x, i) == IF x.t = "arr" /\ i < Len(x.v) THEN x.v[i + 1] ELSE JUndef

\* isConversationEnd that never holds
isConversationEnd_Never(intent) == FALSE

\* intent === "conversation_end"
isConversationEnd(intent) == intent.t = "str" /\ intent.v = "conversation_end"

\* !intent || typeof intent !== "string"
invalidIntent(intent) == ~Truthy(intent) \/ TypeOf(intent) # "string"

conversationEndReply(language) ==
  JStr(getLanguageSpecificResponse(commonResponses.conversationEnd.es,
                                   commonResponses.conversationEnd.en,
                                   Or(language, JStr("English"))))

errorReply(language) ==
  JStr(getLanguageSpecificResponse(commonResponses.error.es, commonResponses.error.en,
                                   Or(language, JStr("English"))))

\* data.choices[0].message.content; thrown = TRUE where reading a property of
\* undefined or null raises a TypeError
completionContent(data) ==
  IF \/ Nullish(data)
     \/ Nullish(Get(data, "choices"))
     \/ Nullish(At(Get(data, "choices"), 0))
     \/ Nullish(Get(At(Get(data, "choices"), 0), "message"))
  THEN [thrown |-> TRUE, value |-> JUndef]
  ELSE [thrown |-> FALSE,
        value |-> Get(Get(At(Get(data, "choices"), 0), "message"), "content")]

\* generateFinalAnswer up to the await of callOpenAI: the canned reply for
\* conversation_end, a rejection for an invalid intent or a context that
\* cannot be mapped (both outside the try block), otherwise Unsettled: the
\* language model is called
generateFinalAnswerStart(args) ==
  IF isConversationEnd(args.intent) THEN Resolved(conversationEndReply(args.language))
  ELSE IF invalidIntent(args.intent) THEN Rejected
  ELSE IF contextMapThrows(args.context) THEN Rejected
  ELSE Unsettled

\* the try block around callOpenAI: the content of the completion, or the
\* canned error reply when callOpenAI threw or the completion has no content
\* to read
contentOrError(content, language) ==
  IF content.thrown THEN Resolved(errorReply(language)) ELSE Resolved(content.value)
generateFinalAnswerEnd(args, outcome) ==
  IF outcome.threw THEN Resolved(errorReply(args.language))
  ELSE contentOrError(completionContent(outcome.data), args.language)

\* what callOpenAI comes back with: it throws, or it returns the JSON body of
\* the provider's 200 response
Completion(content) ==
  JObj([choices |-> JArr(<<JObj([message |-> JObj([role |-> JStr("assistant"),
                                                   content |-> content])])>>)])
LlmOutcomes ==
  {[threw |-> TRUE, data |-> JUndef]}
  \cup {[threw |-> FALSE, data |-> d] :
          d \in {Completion(JStr("Your order is on its way")), Completion(JStr("")),
                 Completion(JNull), JObj([choices |-> JArr(<<>>)]),
                 JObj([error |-> JStr("overloaded")])}}

\* the arguments of the calls of generateFinalAnswer
OrderData ==
  JObj([success |-> JBool(TRUE), order |-> JObj([name |-> JStr("#1234")])])
AnswerIntents ==
  {JStr("conversation_end"), JStr("other-general"), JStr("other-order"), JStr(""),
   JUndef, JNum(5)}
AnswerLanguages == {JUndef, JStr("Spanish"), JStr("English"), JStr("")}
AnswerContexts ==
  {JUndef, JArr(<<JsTurn(UserTurn), JsTurn(AskOrderTurn)>>), JStr("ctx"), JArr(<<JNull>>)}
AnswerArgs ==
  [intent : AnswerIntents,
   parameters : {JObj(DefaultParameters)},
   shopifyData : {JNull, OrderData},
   userMessage : {JStr("Thanks!"), JUndef},
   context : AnswerContexts,
   language : AnswerLanguages]

notAnswer == <<routeVars, cmVars, clock, resolverVars, chatVars, addressVars,
               sanitizerVars, answerVars, externalVars>>

InitAnswer ==
  /\ request = NoRequest
  /\ pc = "off"
  /\ cmArgs = NoArgs
  /\ responses = <<>>
  /\ raceStart = 0
  /\ cmIdle
  /\ clock = 0
  /\ resolverOff /\ chatOff /\ addressOff /\ sanitizerOff /\ answerOff /\ externalOff
  /\ gfaArgs \in AnswerArgs
  /\ gfaState = "idle"
  /\ gfaLlmCalls = 0
  /\ gfaResult = Unsettled

\* generateFinalAnswer is called and runs up to the await of callOpenAI
Generate ==
  /\ gfaState = "idle"
  /\ gfaResult' = generateFinalAnswerStart(gfaArgs)
  /\ gfaState' = IF gfaResult'.kind = "none" THEN "calling" ELSE "settled"
  /\ gfaLlmCalls' = IF gfaResult'.kind = "none" THEN gfaLlmCalls + 1 ELSE gfaLlmCalls
  /\ UNCHANGED <<gfaArgs, notAnswer>>

\* callOpenAI has returned or thrown: the rest of generateFinalAnswer
CallSettles(outcome) ==
  /\ gfaState = "calling"
  /\ gfaResult' = generateFinalAnswerEnd(gfaArgs, outcome)
  /\ gfaState' = "settled"
  /\ UNCHANGED <<gfaArgs, gfaLlmCalls, notAnswer>>

NextAnswer ==
  \/ Generate
  \/ \E outcome \in LlmOutcomes : CallSettles(outcome)

SpecAnswer == InitAnswer /\ [][NextAnswer]_vars

(***************************************************************************)
(* Properties of generateFinalAnswer (specification SpecAnswer)            *)
(***************************************************************************)
\* C12: for intent = conversation_end, whatever the other arguments are,
\* generateFinalAnswer makes no call to the language model and resolves to the
\* canned conversation-end reply in the requested language (English when no
\* language is given).
C12_ConversationEndCanned ==
  (gfaState # "off" /\ gfaArgs.intent.t = "str" /\ gfaArgs.intent.v = "conversation_end")
  => /\ gfaLlmCalls = 0
     /\ gfaState # "calling"
     /\ gfaState = "settled"
        => /\ gfaResult.kind = "resolved"
           /\ SameValue(gfaResult.value,
                        JStr(IF gfaArgs.language.t = "str" /\ gfaArgs.language.v = "Spanish"
                             THEN commonResponses.conversationEnd.es
                             ELSE commonResponses.conversationEnd.en))

\* conversation_end in Spanish, with a context that a language-model call
\* could not have been built from, was answered with the Spanish canned reply
C12_Witness ==
  /\ gfaState = "settled"
  /\ gfaArgs.intent.t = "str" /\ gfaArgs.intent.v = "conversation_end"
  /\ gfaArgs.language.t = "str" /\ gfaArgs.language.v = "Spanish"
  /\ gfaArgs.context.t = "str"
  /\ gfaResult.kind = "resolved"
  /\ SameValue(gfaResult.value, JStr(commonResponses.conversationEnd.es))
  /\ gfaLlmCalls = 0

\* C13 (as claimed): for every input generateFinalAnswer resolves to a reply
\* string; it never rejects.
C13_NeverPropagates ==
  gfaState = "settled" => (gfaResult.kind = "resolved" /\ gfaResult.value.t = "str")

(***************************************************************************)
(* The chat route: validation, the call of the classify endpoint, the      *)
(* ticket update, intentHandler and the race with the timer                *)
(***************************************************************************)
INTENT_TIMEOUT == 30000
ChatStep == 15000

\* the validation of the chat route; destructuring a null body raises a
\* TypeError
chatValidationError(req) ==
  IF ~(req.contentType.t = "str" /\ includes(req.contentType.v, "application/json"))
  THEN APIError(415, "INVALID_CONTENT_TYPE")
  ELSE IF req.malformed THEN APIError(400, "INVALID_JSON")
  ELSE IF Nullish(req.body) THEN InternalError
  ELSE IF invalidMessage(Get(req.body, "message")) THEN APIError(400, "INVALID_MESSAGE")
  ELSE IF invalidContext(Get(req.body, "context")) THEN APIError(400, "INVALID_CONTEXT")
  ELSE NoError

\* the response of the classify route to a classification that passed its
\* checks: only the intent and the parameters, at the top level of the body
classifyOk(c) ==
  [network |-> FALSE, ok |-> TRUE, status |-> 200,
   body |-> classifyBody(c)]

\* a response that carries the classification under data.classification
classifyWrapped(c) ==
  [network |-> FALSE, ok |-> TRUE, status |-> 200,
   body |-> JObj([data |-> JObj([classification |-> c])])]

\* an error response of the classify route, and a fetch that rejects
classifyError(status, body) == [network |-> FALSE, ok |-> FALSE, status |-> status, body |-> body]
classifyUnreachable == [network |-> TRUE, ok |-> FALSE, status |-> 0, body |-> JUndef]

\* the APIError thrown for a response that is not ok
classifyFailure(reply) ==
  APIError(reply.status,
           Or(Get(reply.body, "code"), JStr("CLASSIFICATION_ERROR")).v)

\* classificationData.data.classification
wrappedClassification(reply) == Get(Get(reply.body, "data"), "classification")

\* reading classificationData.data.classification and destructuring it
\* raises a TypeError: data, or the classification, is undefined or null
readClassificationThrows(reply) ==
  \/ Nullish(reply.body)
  \/ Nullish(Get(reply.body, "data"))
  \/ Nullish(wrappedClassification(reply))

\* currentTicket?.id
ticketId(req) ==
  IF Nullish(Get(req.body, "currentTicket")) THEN JUndef
  ELSE Get(Get(req.body, "currentTicket"), "id")

\* the "Handle ticket updates" test; reading parameters.order_number raises
\* a TypeError when the ticket has an id and parameters is undefined or null
ticketTestThrows(req, c) == Truthy(ticketId(req)) /\ Nullish(Parameters(c))
needsTicketUpdate(req, c) ==
  /\ Truthy(ticketId(req))
  /\ Truthy(Param(c, "order_number"))
  /\ Truthy(Param(c, "email"))
  /\ \/ ~Truthy(Get(Get(req.body, "currentTicket"), "orderNumber"))
     \/ ~Truthy(Get(Get(req.body, "currentTicket"), "email"))

\* the intents that intentHandler hands to a handler of the intents module
HandledIntents ==
  {"order_tracking", "returns_exchange", "delivery_issue", "change_delivery",
   "product_sizing", "update_order", "restock", "promo_code", "invoice_request"}

\* the case of the switch that runs
handlerCase(c) ==
  IF Intent(c).t = "str" /\ Intent(c).v \in HandledIntents THEN "handled"
  ELSE IF IntentIs(c, "other-order") THEN "other-order"
  ELSE "default"

\* missingOrderIdentity testing the order number only
missingOrderIdentity_OrderOnly(parameters) == ~Truthy(Get(parameters, "order_number"))

\* !parameters.order_number || !parameters.email
missingOrderIdentity(parameters) ==
  ~Truthy(Get(parameters, "order_number")) \/ ~Truthy(Get(parameters, "email"))

\* the canned request for the order number and the email
requestForInfo(language) ==
  JStr(IF language.t = "str" /\ language.v = "Spanish"
       THEN "Para ayudarte mejor con tu consulta sobre el pedido, necesito ..."
       ELSE "To better help you with your order-related query, I need ...")

\* the arguments of the call of generateFinalAnswer in intentHandler
handlerAnswerArgs(req, c, orderData) ==
  [intent |-> Intent(c), parameters |-> Parameters(c), shopifyData |-> orderData,
   userMessage |-> Get(req.body, "message"), context |-> Get(req.body, "context"),
   language |-> Get(c, "language")]

\* intentHandler at its first await, or settled: [state, result, tracks,
\* calls], tracks and calls counting the calls of trackOrder and of the
\* language model it has made
handlerAt(state, result, tracks, calls) ==
  [state |-> state, result |-> result, tracks |-> tracks, calls |-> calls]
afterGenerateStart(r) ==
  IF r.kind = "none" THEN handlerAt("generating", r, 0, 1) ELSE handlerAt("settled", r, 0, 0)
handlerStart(req, c) ==
  IF handlerCase(c) = "handled" THEN handlerAt("external", Unsettled, 0, 0)
  ELSE IF handlerCase(c) = "default"
  THEN afterGenerateStart(generateFinalAnswerStart(handlerAnswerArgs(req, c, JNull)))
  ELSE IF Nullish(Parameters(c)) THEN handlerAt("settled", Rejected, 0, 0)
  ELSE IF missingOrderIdentity(Parameters(c))
  THEN handlerAt("settled", Resolved(requestForInfo(Get(c, "language"))), 0, 0)
  ELSE handlerAt("tracking", Unsettled, 1, 0)

\* the replies of the handlers of the intents module, by their names
InvalidCredentials == JStr("InvalidCredentials(language, error)")
HandlerReply == JStr("reply of the intent handler")

chatOk(response) == [status |-> 200, code |-> "", body |-> JObj([response |-> response])]

\* the requests of the chat route, the classifications the classify endpoint
\* answers with, and what the calls of the route come back with
Tickets ==
  {JUndef, JObj([id |-> JStr("t1")]),
   JObj([id |-> JStr("t2"), orderNumber |-> JStr("#1234"), email |-> JStr("eva@mail.com")])}
ChatBodies ==
  {JObj([message |-> Message, context |-> c, currentTicket |-> t]) :
     c \in {JUndef, JArr(<<JsTurn(UserTurn), JsTurn(AskOrderTurn)>>)}, t \in Tickets}
  \cup {JObj([message |-> JStr("")]), JObj([message |-> Message, context |-> JStr("ctx")]),
        JNull}
ChatRequests ==
  {[contentType |-> JStr("text/plain"), malformed |-> FALSE, body |-> JObj([message |-> Message])],
   [contentType |-> JStr("application/json"), malformed |-> TRUE, body |-> JUndef]}
  \cup {[contentType |-> JStr("application/json"), malformed |-> FALSE, body |-> b] :
          b \in ChatBodies}

ChatIntents == {"other-order", "order_tracking", "conversation_end", "other-general"}
ChatClassifications ==
  {JObj([intent |-> JStr(i),
         parameters |-> JObj([order_number |-> JStr(x.order_number), email |-> JStr(x.email)]),
         language |-> l]) :
     i \in ChatIntents,
     x \in [order_number : {"", "#1234"}, email : {"", "eva@mail.com"}],
     l \in {JStr("Spanish"), JStr("English")}}
  \cup {JObj([intent |-> JStr("other-order"), language |-> JStr("English")])}
ClassifyReplies ==
  {classifyOk(c) : c \in ChatClassifications}
  \cup {classifyWrapped(c) : c \in ChatClassifications}
  \cup {classifyWrapped(JNull), classifyUnreachable,
        classifyError(408, JObj([error |-> JStr("Classification timeout"),
                                 code |-> JStr("CLASSIFICATION_TIMEOUT")])),
        classifyError(500, JObj(EmptyMap)),
        classifyError(502, JNull)}

\* trackOrder: it throws, it reports a failure, or it returns the order
TrackResults ==
  {[threw |-> TRUE, data |-> JUndef],
   [threw |-> FALSE, data |-> JObj([success |-> JBool(FALSE), error |-> JStr("InvalidEmail")])],
   [threw |-> FALSE, data |-> OrderData]}

notChat == <<routeVars, cmVars, resolverVars, gfaVars, addressVars, sanitizerVars,
             answerVars, externalVars>>

InitChat ==
  /\ request = NoRequest
  /\ pc = "off"
  /\ cmArgs = NoArgs
  /\ responses = <<>>
  /\ raceStart = 0
  /\ cmIdle
  /\ clock = 0
  /\ resolverOff /\ gfaOff /\ addressOff /\ sanitizerOff /\ answerOff /\ externalOff
  /\ chatRequest \in ChatRequests
  /\ chatPc = "start"
  /\ classifyReply = JUndef
  /\ chatClassification = JUndef
  /\ handlerState = "none"
  /\ handlerResult = Unsettled
  /\ trackCalls = 0
  /\ answerCalls = 0
  /\ chatRaceStart = 0
  /\ chatResponses = <<>>

\* the catch block of POST answers through handleError
ChatFails(error) ==
  /\ chatPc' = "responded"
  /\ chatResponses' = Append(chatResponses, handleError(error))

\* POST up to the await of the fetch of the classify endpoint
ChatValidate ==
  /\ chatPc = "start"
  /\ IF chatValidationError(chatRequest) # NoError
     THEN ChatFails(chatValidationError(chatRequest))
     ELSE chatPc' = "classifying" /\ UNCHANGED chatResponses
  /\ UNCHANGED <<chatRequest, classifyReply, chatClassification, handlerState,
                 handlerResult, trackCalls, answerCalls, chatRaceStart, clock, notChat>>

\* intentHandler(intent, parameters) is called and the race starts
StartHandler(h) ==
  /\ chatPc' = "handling"
  /\ chatRaceStart' = clock
  /\ handlerState' = h.state
  /\ handlerResult' = h.result
  /\ trackCalls' = trackCalls + h.tracks
  /\ answerCalls' = answerCalls + h.calls
  /\ UNCHANGED chatResponses

\* the classify endpoint has answered: the error of a response that is not
\* ok is thrown; the classification is read from data.classification; then
\* the ticket update starts, or intentHandler is called
ClassifyAnswers(reply) ==
  /\ chatPc = "classifying"
  /\ classifyReply' = reply
  /\ IF reply.network \/ Nullish(reply.body)
     THEN /\ ChatFails(InternalError)
          /\ UNCHANGED <<chatClassification, handlerState, handlerResult, trackCalls,
                         answerCalls, chatRaceStart>>
     ELSE IF ~reply.ok
     THEN /\ ChatFails(classifyFailure(reply))
          /\ UNCHANGED <<chatClassification, handlerState, handlerResult, trackCalls,
                         answerCalls, chatRaceStart>>
     ELSE IF readClassificationThrows(reply)
     THEN /\ ChatFails(InternalError)
          /\ UNCHANGED <<chatClassification, handlerState, handlerResult, trackCalls,
                         answerCalls, chatRaceStart>>
     ELSE /\ chatClassification' = wrappedClassification(reply)
          /\ IF ticketTestThrows(chatRequest, wrappedClassification(reply))
             THEN /\ ChatFails(InternalError)
                  /\ UNCHANGED <<handlerState, handlerResult, trackCalls, answerCalls,
                                 chatRaceStart>>
             ELSE IF needsTicketUpdate(chatRequest, wrappedClassification(reply))
             THEN /\ chatPc' = "updatingTicket"
                  /\ trackCalls' = trackCalls + 1
                  /\ UNCHANGED <<handlerState, handlerResult, answerCalls, chatRaceStart,
                                 chatResponses>>
             ELSE StartHandler(handlerStart(chatRequest, wrappedClassification(reply)))
  /\ UNCHANGED <<chatRequest, clock, notChat>>

\* trackOrder of the ticket update has settled: a failure is answered with
\* InvalidCredentials; otherwise the ticket is updated (updated = FALSE when
\* updateTicketWithOrderInfo throws) and intentHandler is called
TicketTracked(result, updated) ==
  /\ chatPc = "updatingTicket"
  /\ IF result.threw \/ (Truthy(Get(result.data, "success")) /\ ~updated)
     THEN /\ ChatFails(InternalError)
          /\ UNCHANGED <<handlerState, handlerResult, trackCalls, answerCalls, chatRaceStart>>
     ELSE IF ~Truthy(Get(result.data, "success"))
     THEN /\ chatPc' = "responded"
          /\ chatResponses' = Append(chatResponses, chatOk(InvalidCredentials))
          /\ UNCHANGED <<handlerState, handlerResult, trackCalls, answerCalls, chatRaceStart>>
     ELSE StartHandler(handlerStart(chatRequest, chatClassification))
  /\ UNCHANGED <<chatRequest, classifyReply, chatClassification, clock, notChat>>

\* the step of intentHandler that follows a settled call
HandlerSteps(h) ==
  /\ handlerState' = h.state
  /\ handlerResult' = h.result
  /\ trackCalls' = trackCalls + h.tracks
  /\ answerCalls' = answerCalls + h.calls
  /\ UNCHANGED <<chatRequest, chatPc, classifyReply, chatClassification, chatRaceStart,
                 chatResponses, clock, notChat>>

\* other-order: trackOrder has settled, generateFinalAnswer is called with
\* the order data
HandlerTracked(result) ==
  /\ chatPc \in {"handling", "responded"}
  /\ handlerState = "tracking"
  /\ HandlerSteps(IF result.threw THEN handlerAt("settled", Rejected, 0, 0)
                  ELSE afterGenerateStart(
                         generateFinalAnswerStart(
                           handlerAnswerArgs(chatRequest, chatClassification, result.data))))

\* callOpenAI of generateFinalAnswer has settled
HandlerGenerated(outcome) ==
  /\ chatPc \in {"handling", "responded"}
  /\ handlerState = "generating"
  /\ HandlerSteps(handlerAt("settled",
                            generateFinalAnswerEnd(
                              handlerAnswerArgs(chatRequest, chatClassification, JNull),
                              outcome),
                            0, 0))

\* a handler of the intents module has replied (replied = TRUE) or thrown
HandlerReplies(replied) ==
  /\ chatPc \in {"handling", "responded"}
  /\ handlerState = "external"
  /\ HandlerSteps(handlerAt("settled", IF replied THEN Resolved(HandlerReply) ELSE Rejected,
                            0, 0))

chatTimerDue == chatPc = "handling" /\ clock >= chatRaceStart + INTENT_TIMEOUT

\* intentHandler settled first: the route answers with its reply, or through
\* handleError when it rejected
ChatFinish ==
  /\ chatPc = "handling"
  /\ handlerState = "settled"
  /\ chatPc' = "responded"
  /\ chatResponses' =
       Append(chatResponses,
              IF handlerResult.kind = "rejected" THEN handleError(InternalError)
              ELSE chatOk(handlerResult.value))
  /\ UNCHANGED <<chatRequest, classifyReply, chatClassification, handlerState,
                 handlerResult, trackCalls, answerCalls, chatRaceStart, clock, notChat>>

\* the timer fired first
ChatTimeout ==
  /\ chatTimerDue
  /\ handlerState # "settled"
  /\ chatPc' = "responded"
  /\ chatResponses' =
       Append(chatResponses, handleError(APIError(408, "INTENT_PROCESSING_TIMEOUT")))
  /\ UNCHANGED <<chatRequest, classifyReply, chatClassification, handlerState,
                 handlerResult, trackCalls, answerCalls, chatRaceStart, clock, notChat>>

\* time passes while intentHandler is pending; a timer that is due fires
\* before time passes further
ChatTick ==
  /\ chatPc = "handling"
  /\ handlerState # "settled"
  /\ ~chatTimerDue
  /\ clock' = clock + ChatStep
  /\ UNCHANGED <<chatVars, notChat>>

NextChat ==
  \/ ChatValidate
  \/ \E reply \in ClassifyReplies : ClassifyAnswers(reply)
  \/ \E result \in TrackResults, updated \in BOOLEAN : TicketTracked(result, updated)
  \/ \E result \in TrackResults : HandlerTracked(result)
  \/ \E outcome \in LlmOutcomes : HandlerGenerated(outcome)
  \/ \E replied \in BOOLEAN : HandlerReplies(replied)
  \/ ChatFinish
  \/ ChatTimeout
  \/ ChatTick

SpecChat == InitChat /\ [][NextChat]_vars

(***************************************************************************)
(* Properties of the chat route (specification SpecChat)                   *)
(***************************************************************************)
\* the classify endpoint answered 200 with a body {intent, parameters}, both
\* truthy, as the classify route does for a classification that passed
classifiedOk ==
  /\ "ok" \in DOMAIN classifyReply
  /\ classifyReply.ok
  /\ Truthy(Get(classifyReply.body, "intent"))
  /\ Truthy(Get(classifyReply.body, "parameters"))

\* C11 (as claimed): when the call of the classify endpoint succeeded with
\* {intent, parameters}, the chat route calls intentHandler with that intent,
\* and it never answers with an error response because of the classification:
\* once it has answered and intentHandler had settled with a reply, the
\* answer is 200 with that reply as response.
C11_ClassifiedThenDispatched ==
  classifiedOk
  => /\ chatPc = "responded" /\ chatResponses[1].status = 200 => handlerState # "none"
     /\ chatPc = "responded" => chatResponses[1].status # 500

\* C18: for intent = other-order with an empty order_number or email,
\* intentHandler settles at once with the canned request for the order
\* number and the email, in Spanish when the detected language is Spanish and
\* in English otherwise, and neither trackOrder nor the language model has
\* been called; intentHandler calls trackOrder and the language model for
\* other-order only when both are present.
C18_OtherOrderNeedsIdentity ==
  (handlerState # "none" /\ IntentIs(chatClassification, "other-order")
   /\ Parameters(chatClassification).t = "obj")
  => LET order == Param(chatClassification, "order_number")
         email == Param(chatClassification, "email")
         language == Get(chatClassification, "language")
     IN /\ (~Truthy(order) \/ ~Truthy(email))
           => /\ handlerState = "settled"
              /\ handlerResult.kind = "resolved"
              /\ SameValue(handlerResult.value,
                           JStr(IF language.t = "str" /\ language.v = "Spanish"
                                THEN "Para ayudarte mejor con tu consulta sobre el pedido, necesito ..."
                                ELSE "To better help you with your order-related query, I need ..."))
              /\ trackCalls = 0
              /\ answerCalls = 0
        /\ (handlerState \in {"tracking", "generating"} \/ answerCalls > 0)
           => (Truthy(order) /\ Truthy(email) /\ trackCalls >= 1)

\* an other-order turn without email was answered 200 with the Spanish
\* request for information, and nothing was looked up or generated
C18_Witness ==
  /\ chatPc = "responded"
  /\ IntentIs(chatClassification, "other-order")
  /\ Truthy(Param(chatClassification, "order_number"))
  /\ ~Truthy(Param(chatClassification, "email"))
  /\ chatResponses[1].status = 200
  /\ SameValue(chatResponses[1].body,
               JObj([response |-> requestForInfo(JStr("Spanish"))]))
  /\ trackCalls = 0
  /\ answerCalls = 0

(***************************************************************************)
(* AIService.validateAddress                                               *)
(***************************************************************************)
\* the result for an address that could not be validated
emptyAddressResult ==
  JObj([formattedAddress |-> JStr(""),
        multipleCandidates |-> JBool(FALSE),
        addressCandidates |-> JArr(<<>>)])

\* !address || typeof address !== "string"
invalidAddress(a) == ~Truthy(a) \/ TypeOf(a) # "string"

\* an answer of the geocoder: fetch rejected, or a response with its status
\* and a body that parses into data or does not parse
geoUnreachable == [network |-> TRUE, ok |-> FALSE, parsed |-> FALSE, data |-> JUndef]
geoStatus(ok) == [network |-> FALSE, ok |-> ok, parsed |-> FALSE, data |-> JUndef]
geoData(data) == [network |-> FALSE, ok |-> TRUE, parsed |-> TRUE, data |-> data]

\* data.status === "REQUEST_DENIED"
requestDenied(data) ==
  Get(data, "status").t = "str" /\ Get(data, "status").v = "REQUEST_DENIED"

\* data.candidates?.[0]?.formatted_address || ""
formattedAddress(data) ==
  Or(Get(At(Get(data, "candidates"), 0), "formatted_address"), JStr(""))

\* multipleCandidates of one candidate and more
multipleCandidates_AtLeastOne(data) ==
  JBool(Get(data, "candidates").t = "arr" /\ Len(Get(data, "candidates").v) > 0)

\* data.candidates?.length > 1 || false
multipleCandidates(data) ==
  JBool(Get(data, "candidates").t \in {"arr", "str"} /\ Len(Get(data, "candidates").v) > 1)

\* data.candidates?.map(c => c.formatted_address) raises a TypeError
candidatesMapThrows(candidates) ==
  /\ ~Nullish(candidates)
  /\ \/ candidates.t # "arr"
     \/ \E i \in 1..Len(candidates.v) : Nullish(candidates.v[i])

\* data.candidates?.map(c => c.formatted_address) || []
addressCandidates(candidates) ==
  IF Nullish(candidates) THEN JArr(<<>>)
  ELSE JArr([i \in 1..Len(candidates.v) |-> Get(candidates.v[i], "formatted_address")])

\* the statements of the try block after the fetch; every throw is caught by
\* the catch of the same function
validateAddressEnd(reply) ==
  IF reply.network \/ ~reply.ok \/ ~reply.parsed THEN Resolved(emptyAddressResult)
  ELSE IF Nullish(reply.data) \/ requestDenied(reply.data)
  THEN Resolved(emptyAddressResult)
  ELSE IF candidatesMapThrows(Get(reply.data, "candidates"))
  THEN Resolved(emptyAddressResult)
  ELSE Resolved(JObj([formattedAddress |-> formattedAddress(reply.data),
                      multipleCandidates |-> multipleCandidates(reply.data),
                      addressCandidates |-> addressCandidates(Get(reply.data, "candidates"))]))

MaxCandidates == 3
Places == {"Calle Mayor 1, Madrid", "Calle Mayor 1, Toledo", ""}
Candidate(place) == JObj([formatted_address |-> JStr(place)])
RECURSIVE CandidateLists(_)
CandidateLists(n) ==
  IF n = 0 THEN {<<>>}
  ELSE CandidateLists(n - 1)
       \cup {Append(q, Candidate(place)) :
               q \in {r \in CandidateLists(n - 1) : Len(r) = n - 1}, place \in Places}

Addresses == {JStr("calle mayor 1"), JStr("mayor 1"), JStr(""), JUndef, JNum(28001)}

GeoReplies ==
  {geoUnreachable, geoStatus(FALSE), geoStatus(TRUE), geoData(JNull)}
  \cup {geoData(JObj([status |-> JStr(st), candidates |-> JArr(q)])) :
          st \in {"OK", "ZERO_RESULTS"}, q \in CandidateLists(MaxCandidates)}
  \cup {geoData(JObj([status |-> JStr("REQUEST_DENIED"),
                      error_message |-> JStr("The provided API key is invalid."),
                      candidates |-> JArr(<<>>)])),
        geoData(JObj([status |-> JStr("INVALID_REQUEST")])),
        geoData(JObj([status |-> JStr("OK"), candidates |-> JArr(<<JNull>>)])),
        geoData(JObj([status |-> JStr("OK"), candidates |-> JArr(<<JObj(EmptyMap)>>)])),
        geoData(JObj([status |-> JStr("OK"), candidates |-> JStr("none")]))}

notAddress == <<routeVars, cmVars, clock, resolverVars, chatVars, gfaVars,
                sanitizerVars, answerVars, externalVars>>

InitAddress ==
  /\ request = NoRequest
  /\ pc = "off"
  /\ cmArgs = NoArgs
  /\ responses = <<>>
  /\ raceStart = 0
  /\ cmIdle
  /\ clock = 0
  /\ resolverOff /\ chatOff /\ gfaOff /\ sanitizerOff /\ answerOff /\ externalOff
  /\ address \in Addresses
  /\ vaState = "idle"
  /\ geoReply = JUndef
  /\ vaResult = Unsettled

\* validateAddress is called and runs up to the await of fetch
Validate ==
  /\ vaState = "idle"
  /\ IF invalidAddress(address)
     THEN vaState' = "settled" /\ vaResult' = Resolved(emptyAddressResult)
     ELSE vaState' = "fetching" /\ vaResult' = vaResult
  /\ UNCHANGED <<address, geoReply, notAddress>>

\* the geocoder has answered: the rest of validateAddress
GeocoderAnswers(reply) ==
  /\ vaState = "fetching"
  /\ geoReply' = reply
  /\ vaResult' = validateAddressEnd(reply)
  /\ vaState' = "settled"
  /\ UNCHANGED <<address, notAddress>>

NextAddress ==
  \/ Validate
  \/ \E reply \in GeoReplies : GeocoderAnswers(reply)

SpecAddress == InitAddress /\ [][NextAddress]_vars

(***************************************************************************)
(* Properties of validateAddress (specification SpecAddress)               *)
(***************************************************************************)
\* the geocoder answered with a list of candidates, each with its
\* formatted_address string, and did not deny the request
answeredCandidates ==
  /\ vaState = "settled"
  /\ "ok" \in DOMAIN geoReply
  /\ geoReply.ok /\ geoReply.parsed
  /\ geoReply.data.t = "obj"
  /\ "candidates" \in DOMAIN geoReply.data.v
  /\ ~(geoReply.data.v.status.v = "REQUEST_DENIED")
  /\ geoReply.data.v.candidates.t = "arr"
  /\ \A i \in 1..Len(geoReply.data.v.candidates.v) :
       /\ geoReply.data.v.candidates.v[i].t = "obj"
       /\ "formatted_address" \in DOMAIN geoReply.data.v.candidates.v[i].v

candidateString(i) == geoReply.data.v.candidates.v[i].v.formatted_address

\* C14: validateAddress maps the candidates of the geocoder to its result:
\* none gives {formattedAddress: "", multipleCandidates: false,
\* addressCandidates: []}; one gives formattedAddress equal to it and
\* multipleCandidates false; two or more give multipleCandidates true and
\* addressCandidates holding every candidate string in the geocoder's order.
C14_CandidatesMapped ==
  answeredCandidates
  => LET n == Len(geoReply.data.v.candidates.v)
         result == vaResult.value
     IN /\ vaResult.kind = "resolved"
        /\ n = 0 => SameValue(result, emptyAddressResult)
        /\ n = 1 => /\ SameValue(result.v.formattedAddress, candidateString(1))
                    /\ SameValue(result.v.multipleCandidates, JBool(FALSE))
        /\ n >= 2 => SameValue(result.v.multipleCandidates, JBool(TRUE))
        /\ n >= 1 => /\ SameValue(result.v.formattedAddress, candidateString(1))
                     /\ Len(result.v.addressCandidates.v) = n
                     /\ \A i \in 1..n :
                          SameValue(result.v.addressCandidates.v[i], candidateString(i))

\* two candidates were answered and came back in the geocoder's order
C14_Witness ==
  /\ answeredCandidates
  /\ Len(geoReply.data.v.candidates.v) = 2
  /\ candidateString(1).v = "Calle Mayor 1, Toledo"
  /\ candidateString(2).v = "Calle Mayor 1, Madrid"
  /\ vaResult.value.v.multipleCandidates.v
  /\ vaResult.value.v.addressCandidates.v[1].v = "Calle Mayor 1, Toledo"
  /\ vaResult.value.v.addressCandidates.v[2].v = "Calle Mayor 1, Madrid"

\* C15 (as claimed): when the geocoder answers with status REQUEST_DENIED,
\* validateAddress rejects; for every other failure (network error, non-OK
\* status, a body that does not parse) it resolves to the empty result.
C15_DeniedRaises ==
  (vaState = "settled" /\ "ok" \in DOMAIN geoReply)
  => /\ (geoReply.parsed /\ geoReply.data.t = "obj"
         /\ "status" \in DOMAIN geoReply.data.v
         /\ geoReply.data.v.status.v = "REQUEST_DENIED")
        => vaResult.kind = "rejected"
     /\ (geoReply.network \/ ~geoReply.ok \/ ~geoReply.parsed)
        => (vaResult.kind = "resolved" /\ SameValue(vaResult.value, emptyAddressResult))

(***************************************************************************)
(* AIService.sanitizeInput applied to its own result                       *)
(***************************************************************************)
MaxTokens == 3
\* pieces of input: runs of one and four backticks, the marker in both
\* cases, a marker nested in another one, halves of a marker, whitespace
SanitizerTokens == {Backtick, Backtick \o Backtick \o Backtick \o Backtick,
           "system:", "SYSTEM:", "syssystem:tem:", "sys", "tem:", " "}
RECURSIVE SanitizerInputs(_)
SanitizerInputs(n) ==
  IF n = 0 THEN {""}
  ELSE SanitizerInputs(n - 1) \cup {x \o token : x \in SanitizerInputs(n - 1), token \in SanitizerTokens}

notSanitizer == <<routeVars, cmVars, clock, resolverVars, chatVars, gfaVars,
                  addressVars, answerVars, externalVars>>

InitSanitizer ==
  /\ request = NoRequest
  /\ pc = "off"
  /\ cmArgs = NoArgs
  /\ responses = <<>>
  /\ raceStart = 0
  /\ cmIdle
  /\ clock = 0
  /\ resolverOff /\ chatOff /\ gfaOff /\ addressOff /\ answerOff /\ externalOff
  /\ sanInput \in SanitizerInputs(MaxTokens)
  /\ sanOnce = JUndef
  /\ sanTwice = JUndef

\* sanitizeInput(x)
Sanitize ==
  /\ sanOnce.t = "undef"
  /\ sanOnce' = JStr(sanitizeInput(JStr(sanInput)))
  /\ UNCHANGED <<sanInput, sanTwice, notSanitizer>>

\* sanitizeInput(sanitizeInput(x))
SanitizeAgain ==
  /\ sanOnce.t = "str"
  /\ sanTwice.t = "undef"
  /\ sanTwice' = JStr(sanitizeInput(sanOnce))
  /\ UNCHANGED <<sanInput, sanOnce, notSanitizer>>

NextSanitizer == Sanitize \/ SanitizeAgain

SpecSanitizer == InitSanitizer /\ [][NextSanitizer]_vars

\* C16: sanitizeInput(sanitizeInput(x)) equals sanitizeInput(x) for every
\* string x, runs of backticks whose length is no multiple of three and
\* nested or adjacent "system:" markers included.
C16_SanitizerIdempotent ==
  sanTwice.t = "str" => sanTwice.v = sanOnce.v

\* four backticks followed by a nested marker were sanitized twice
C16_Witness ==
  /\ sanInput = Backtick \o Backtick \o Backtick \o Backtick \o "syssystem:tem:" \o " "
  /\ sanOnce.t = "str"
  /\ sanOnce.v = "'''" \o Backtick \o "syssys:tem:"
  /\ sanTwice.t = "str"
  /\ sanTwice.v = sanOnce.v

(***************************************************************************)
(* The answer route: rate limit, validation, response cache, generation    *)
(***************************************************************************)
VALID_INTENTS ==
  {"order_tracking", "returns_exchange", "change_delivery", "return_status",
   "promo_code", "other-order", "other-general", "delivery_issue",
   "conversation_end", "product_sizing", "update_order", "restock",
   "invoice_request"}
RATE_LIMIT_WINDOW == 60000
MAX_REQUESTS_PER_WINDOW == 30
CACHE_TTL == 300000
ANSWER_TIMEOUT == 30000

\* JSON.stringify: the properties of an object in the order in which the
\* requests of this model write them, undefined properties left out,
\* undefined items of an array written as null
PropertyOrder ==
  <<"intent", "parameters", "userMessage", "context", "language", "sizeCharts",
    "shopifyData", "role", "content", "order_number", "email", "size_query">>
RECURSIVE stringify(_), stringifyFields(_, _, _), stringifyItems(_, _)
stringify(x) ==
  CASE x.t = "str" -> "\"" \o x.v \o "\""
    [] x.t = "num" -> ToString(x.v)
    [] x.t = "bool" -> IF x.v THEN "true" ELSE "false"
    [] x.t = "arr" -> "[" \o stringifyItems(x.v, 1) \o "]"
    [] x.t = "obj" -> "{" \o stringifyFields(x.v, 1, "") \o "}"
    [] OTHER -> "null"
stringifyFields(m, i, sep) ==
  IF i > Len(PropertyOrder) THEN ""
  ELSE IF PropertyOrder[i] \in DOMAIN m /\ m[PropertyOrder[i]].t # "undef"
  THEN sep \o "\"" \o PropertyOrder[i] \o "\":" \o stringify(m[PropertyOrder[i]])
           \o stringifyFields(m, i + 1, ",")
  ELSE stringifyFields(m, i + 1, sep)
stringifyItems(q, i) ==
  IF i > Len(q) THEN ""
  ELSE (IF i > 1 THEN "," ELSE "") \o stringify(q[i]) \o stringifyItems(q, i + 1)

\* JSON.stringify({intent, parameters, userMessage, context, language,
\* sizeCharts, shopifyData})
cacheKey(body) ==
  stringify(JObj([intent |-> Get(body, "intent"),
                  parameters |-> Get(body, "parameters"),
                  userMessage |-> Get(body, "userMessage"),
                  context |-> Get(body, "context"),
                  language |-> Get(body, "language"),
                  sizeCharts |-> Get(body, "sizeCharts"),
                  shopifyData |-> Get(body, "shopifyData")]))

\* the rate-limit test with > in place of >=
rateLimited_Above(limits, ip, now) ==
  /\ ip \in DOMAIN limits
  /\ ~(now > limits[ip].resetTime)
  /\ limits[ip].count > MAX_REQUESTS_PER_WINDOW

\* the entry of the client is present, its window has not passed and its
\* count has reached the maximum
rateLimited(limits, ip, now) ==
  /\ ip \in DOMAIN limits
  /\ ~(now > limits[ip].resetTime)
  /\ limits[ip].count >= MAX_REQUESTS_PER_WINDOW

\* rateLimits after the rate-limit check of a request
afterRateLimit(limits, ip, now) ==
  IF ip \notin DOMAIN limits \/ now > limits[ip].resetTime
  THEN (ip :> [count |-> 1, resetTime |-> now + RATE_LIMIT_WINDOW]) @@ limits
  ELSE IF limits[ip].count >= MAX_REQUESTS_PER_WINDOW THEN limits
  ELSE (ip :> [count |-> limits[ip].count + 1, resetTime |-> limits[ip].resetTime]) @@ limits

\* !contentType?.includes("application/json")
answerContentTypeError(req) ==
  IF ~(req.contentType.t = "str" /\ includes(req.contentType.v, "application/json"))
  THEN APIError(415, "INVALID_CONTENT_TYPE")
  ELSE NoError

\* req.json() and the validation of the fields
answerBodyError(req) ==
  IF req.malformed THEN APIError(400, "INVALID_JSON")
  ELSE IF Nullish(req.body) THEN InternalError
  ELSE IF ~Truthy(Get(req.body, "intent")) \/ TypeOf(Get(req.body, "intent")) # "string"
  THEN APIError(400, "INVALID_INTENT")
  ELSE IF Get(req.body, "intent").v \notin VALID_INTENTS
  THEN APIError(400, "INVALID_INTENT_VALUE")
  ELSE IF ~Truthy(Get(req.body, "userMessage"))
          \/ TypeOf(Get(req.body, "userMessage")) # "string"
  THEN APIError(400, "INVALID_USER_MESSAGE")
  ELSE IF ~Truthy(Get(req.body, "parameters"))
          \/ TypeOf(Get(req.body, "parameters")) # "object"
  THEN APIError(400, "INVALID_PARAMETERS")
  ELSE IF Truthy(Get(req.body, "context")) /\ Get(req.body, "context").t # "arr"
  THEN APIError(400, "INVALID_CONTEXT")
  ELSE IF Truthy(Get(req.body, "shopifyData"))
          /\ TypeOf(Get(req.body, "shopifyData")) # "object"
  THEN APIError(400, "INVALID_SHOPIFY_DATA")
  ELSE NoError

\* an entry that is served up to and including the age CACHE_TTL
cacheHit_Inclusive(cache, key, now) ==
  key \in DOMAIN cache /\ now - cache[key].timestamp <= CACHE_TTL

\* cachedResponse && now - cachedResponse.timestamp < CACHE_TTL
cacheHit(cache, key, now) ==
  key \in DOMAIN cache /\ now - cache[key].timestamp < CACHE_TTL

\* context.map(msg => ...): a string item and an item with role and content
\* pass, a nullish item raises a TypeError, any other item the APIError
contextItemError(msg) ==
  IF msg.t = "str" THEN NoError
  ELSE IF Nullish(msg) THEN InternalError
  ELSE IF Truthy(Get(msg, "role")) /\ Truthy(Get(msg, "content")) THEN NoError
  ELSE APIError(400, "INVALID_CONTEXT_FORMAT")
contextFormatError(ctx) ==
  IF ~(Truthy(ctx) /\ ctx.t = "arr") THEN NoError
  ELSE IF \A i \in 1..Len(ctx.v) : contextItemError(ctx.v[i]) = NoError THEN NoError
  ELSE contextItemError(
         ctx.v[CHOOSE i \in 1..Len(ctx.v) :
                     /\ contextItemError(ctx.v[i]) # NoError
                     /\ \A k \in 1..(i - 1) : contextItemError(ctx.v[k]) = NoError])

\* the record kept of a request that has been answered: the key of its body
\* ("" when the body did not parse), its arrival time, the number of answers
\* given before its cache lookup, and the answer
answered(r, key, before, lookedUp, generated, status, cached, answer) ==
  [id |-> r.id, key |-> key, now |-> r.now, before |-> before, lookedUp |-> lookedUp,
   generated |-> generated, status |-> status, cached |-> cached, answer |-> answer]

keyOf(req) == IF req.malformed \/ Nullish(req.body) THEN "" ELSE cacheKey(req.body)

MaxRequests == 3
ClientIp == "203.0.113.7"
\* the answer generated for request r: a text of its own
AnswerFor(r) == "respuesta " \o ToString(r.id)
AnswerBodies ==
  {JObj([intent |-> JStr("other-general"), parameters |-> JObj(EmptyMap),
         userMessage |-> JStr("hola")]),
   JObj([intent |-> JStr("product_information"), parameters |-> JObj(EmptyMap),
         userMessage |-> JStr("hola")]),
   JObj([intent |-> JStr("other-general"), parameters |-> JObj(EmptyMap),
         userMessage |-> JStr("hola"),
         context |-> JArr(<<JObj([role |-> JStr("user"), content |-> JStr("hola")]),
                            JObj([role |-> JStr("assistant")])>>),
         language |-> JStr("Spanish")])}
AnswerRequests ==
  {[ip |-> ClientIp, contentType |-> JStr("application/json"), malformed |-> FALSE,
    body |-> b] : b \in AnswerBodies}
  \cup {[ip |-> ClientIp, contentType |-> JStr("text/plain"), malformed |-> FALSE,
         body |-> JObj([intent |-> JStr("other-general"), parameters |-> JObj(EmptyMap),
                        userMessage |-> JStr("hola")])]}
notAnswerRoute == <<routeVars, cmVars, resolverVars, chatVars, gfaVars, addressVars,
                    sanitizerVars, externalVars>>

\* the module has just been loaded, or the client has had all requests but
\* one of its window refused for their content type at time 0
InitAnswerRoute ==
  /\ request = NoRequest
  /\ pc = "off"
  /\ cmArgs = NoArgs
  /\ responses = <<>>
  /\ raceStart = 0
  /\ cmIdle
  /\ clock = 0
  /\ resolverOff /\ chatOff /\ gfaOff /\ addressOff /\ sanitizerOff /\ externalOff
  /\ rateLimits \in {<<>>,
                     ClientIp :> [count |-> MAX_REQUESTS_PER_WINDOW - 1,
                                  resetTime |-> RATE_LIMIT_WINDOW]}
  /\ responseCache = <<>>
  /\ inFlight = {}
  /\ nextRequest = 0
  /\ answerResponses = <<>>

\* the route answers request r
AnswerResponds(r, record) ==
  /\ inFlight' = inFlight \ {r}
  /\ answerResponses' = Append(answerResponses, record)

\* what the handler does with request r after its rate-limit check, up to
\* the await of the race; req.json() is taken to settle at once
AnswerStarts(r) ==
  IF answerContentTypeError(r.request) # NoError
  THEN AnswerResponds(r, answered(r, keyOf(r.request), Len(answerResponses), FALSE, FALSE,
                                  handleError(answerContentTypeError(r.request)).status,
                                  FALSE, ""))
  ELSE IF answerBodyError(r.request) # NoError
  THEN AnswerResponds(r, answered(r, keyOf(r.request), Len(answerResponses), FALSE, FALSE,
                                  handleError(answerBodyError(r.request)).status,
                                  FALSE, ""))
  ELSE IF cacheHit(responseCache, cacheKey(r.request.body), r.now)
  THEN AnswerResponds(r, answered(r, cacheKey(r.request.body), Len(answerResponses),
                                  TRUE, FALSE, 200, TRUE,
                                  responseCache[cacheKey(r.request.body)].response))
  ELSE IF contextFormatError(Get(r.request.body, "context")) # NoError
  THEN AnswerResponds(r, answered(r, cacheKey(r.request.body), Len(answerResponses),
                                  TRUE, FALSE,
                                  handleError(contextFormatError(
                                                Get(r.request.body, "context"))).status,
                                  FALSE, ""))
  ELSE /\ inFlight' = inFlight \cup {r}
       /\ UNCHANGED answerResponses

\* a request arrives: rate limit, content type, validation, cache lookup,
\* context conversion and the call of generateFinalAnswer
AnswerArrives(req) ==
  /\ nextRequest < MaxRequests
  /\ nextRequest' = nextRequest + 1
  /\ rateLimits' = afterRateLimit(rateLimits, req.ip, clock)
  /\ IF rateLimited(rateLimits, req.ip, clock)
     THEN AnswerResponds([id |-> nextRequest + 1, now |-> clock],
                         answered([id |-> nextRequest + 1, now |-> clock], keyOf(req),
                                  Len(answerResponses), FALSE, FALSE,
                                  handleError(APIError(429, "RATE_LIMIT_EXCEEDED")).status,
                                  FALSE, ""))
     ELSE AnswerStarts([id |-> nextRequest + 1, request |-> req, now |-> clock,
                        before |-> Len(answerResponses)])
  /\ UNCHANGED <<responseCache, clock, notAnswerRoute>>

\* how generateFinalAnswer settles: it rejects, it resolves with the content
\* of the completion, or callOpenAI threw and it resolves with the canned
\* error reply in the language of the request
GenerationOutcomes == {"rejected", "answered", "failed"}
generatedText(r, outcome) ==
  IF outcome = "failed" THEN errorReply(Get(r.request.body, "language")).v
  ELSE AnswerFor(r)

\* generateFinalAnswer settled first: what it resolved with is stored under
\* the arrival time of the request and returned; a rejection goes to
\* handleError
AnswerGenerated(r, outcome) ==
  /\ r \in inFlight
  /\ IF outcome = "rejected"
     THEN /\ AnswerResponds(r, answered(r, cacheKey(r.request.body), r.before, TRUE, TRUE,
                                        handleError(InternalError).status, FALSE, ""))
          /\ UNCHANGED responseCache
     ELSE /\ responseCache' =
               (cacheKey(r.request.body) :>
                  [response |-> generatedText(r, outcome), timestamp |-> r.now])
               @@ responseCache
          /\ AnswerResponds(r, answered(r, cacheKey(r.request.body), r.before, TRUE, TRUE,
                                        200, FALSE, generatedText(r, outcome)))
  /\ UNCHANGED <<rateLimits, nextRequest, clock, notAnswerRoute>>

answerTimerDue(r) == clock >= r.now + ANSWER_TIMEOUT

\* the timer fired first: nothing is stored
AnswerTimeout(r) ==
  /\ r \in inFlight
  /\ answerTimerDue(r)
  /\ AnswerResponds(r, answered(r, cacheKey(r.request.body), r.before, TRUE, TRUE,
                                handleError(APIError(504, "TIMEOUT")).status, FALSE, ""))
  /\ UNCHANGED <<rateLimits, responseCache, nextRequest, clock, notAnswerRoute>>

\* the instants at which requests arrive: on loading, a timeout before the
\* age CACHE_TTL of an answer stored then, and at that age
Instants ==
  {0, CACHE_TTL - ANSWER_TIMEOUT, CACHE_TTL}
Earliest(S) == CHOOSE t \in S : \A u \in S : t <= u

\* time passes up to the next instant or the next timer, whichever is first;
\* a timer that is due fires before time passes further
AnswerTick ==
  /\ \A r \in inFlight : ~answerTimerDue(r)
  /\ \E t \in Instants : t > clock
  /\ clock' = Earliest({t \in Instants : t > clock}
                       \cup {r.now + ANSWER_TIMEOUT : r \in inFlight})
  /\ UNCHANGED <<answerVars, notAnswerRoute>>

NextAnswerRoute ==
  \/ \E req \in AnswerRequests : AnswerArrives(req)
  \/ \E r \in inFlight, outcome \in GenerationOutcomes : AnswerGenerated(r, outcome)
  \/ \E r \in inFlight : AnswerTimeout(r)
  \/ AnswerTick

SpecAnswerRoute == InitAnswerRoute /\ [][NextAnswerRoute]_vars

(***************************************************************************)
(* Properties of the answer route (specification SpecAnswerRoute)          *)
(***************************************************************************)
\* the requests answered with 200 before request j was looked up whose seven
\* fields equal those of j
earlierAnswered(j) ==
  {i \in 1..answerResponses[j].before :
     /\ answerResponses[i].key = answerResponses[j].key
     /\ answerResponses[i].status = 200}

\* C17 (as claimed): a request whose (intent, parameters, userMessage,
\* context, language, sizeCharts, shopifyData) equal those of an earlier
\* answered request is answered with cached = true and without calling
\* generateFinalAnswer when it arrives less than 5 minutes after that
\* request, and with a generated answer and cached = false once 5 minutes
\* have passed since every such request.
C17_CachedForFiveMinutes ==
  \A j \in 1..Len(answerResponses) :
    /\ \A i \in earlierAnswered(j) :
         answerResponses[j].now - answerResponses[i].now < 300000
         => /\ answerResponses[j].status = 200
            /\ answerResponses[j].cached
            /\ ~answerResponses[j].generated
    /\ (/\ earlierAnswered(j) # {}
        /\ \A i \in earlierAnswered(j) :
             answerResponses[j].now - answerResponses[i].now >= 300000)
       => /\ answerResponses[j].generated
          /\ ~answerResponses[j].cached

\* the requests whose generated answer was stored before request j was
\* looked up, under the key of j
storedBefore(j) ==
  {i \in 1..answerResponses[j].before :
     /\ answerResponses[i].key = answerResponses[j].key
     /\ answerResponses[i].generated
     /\ answerResponses[i].status = 200}
lastStored(j) == CHOOSE i \in storedBefore(j) : \A k \in storedBefore(j) : k <= i

\* C17 (amended): a request that passes the rate limit and the validation is
\* answered with cached = true, the answer stored last under its key and no
\* call of generateFinalAnswer exactly when such an answer was stored before
\* it arrived and it arrives less than 5 minutes after the arrival of the
\* request that answer was generated for; otherwise generateFinalAnswer is
\* called unless the context is refused, and an answer it gives is returned
\* with cached = false.
C17_CachedWhileStoredEntryFresh ==
  \A j \in 1..Len(answerResponses) :
    IF answerResponses[j].status \in {429, 415}
       \/ (answerResponses[j].status = 400 /\ ~answerResponses[j].lookedUp)
    THEN ~answerResponses[j].cached /\ ~answerResponses[j].generated
    ELSE IF /\ storedBefore(j) # {}
            /\ answerResponses[j].now - answerResponses[lastStored(j)].now < 300000
    THEN /\ answerResponses[j].status = 200
         /\ answerResponses[j].cached
         /\ ~answerResponses[j].generated
         /\ answerResponses[j].answer = answerResponses[lastStored(j)].answer
    ELSE /\ ~answerResponses[j].cached
         /\ answerResponses[j].status = 200 => answerResponses[j].generated
         /\ ~answerResponses[j].generated => answerResponses[j].status = 400

\* an answer generated at time 0 was served from the cache 4 minutes 30
\* seconds later and generated again at 5 minutes
C17_Witness ==
  /\ Len(answerResponses) = 3
  /\ answerResponses[1].now = 0
  /\ answerResponses[1].generated /\ answerResponses[1].status = 200
  /\ answerResponses[2].key = answerResponses[1].key
  /\ answerResponses[2].now = 270000
  /\ answerResponses[2].cached
  /\ answerResponses[2].answer = answerResponses[1].answer
  /\ answerResponses[3].key = answerResponses[1].key
  /\ answerResponses[3].now = 300000
  /\ answerResponses[3].generated /\ ~answerResponses[3].cached
  /\ answerResponses[3].status = 200

(***************************************************************************)
(* The context resolver on turns that answer a solicitation: the follow-up *)
(* and new-request tests of enrichClassification                           *)
(***************************************************************************)
AskEmailTurn == [role |-> "assistant", content |-> "What is your email?"]
ThanksAskTurn == [role |-> "assistant", content |-> "Gracias. What is your order number?"]
SolicitationTurns == {UserTurn, AskEmailTurn, ThanksAskTurn, ClosingTurn, PrevReturnsTurn}

RECURSIVE ContextsOver(_, _)
ContextsOver(turns, n) ==
  IF n = 0 THEN {<<>>}
  ELSE ContextsOver(turns, n - 1)
       \cup {Append(c, t) : c \in {d \in ContextsOver(turns, n - 1) : Len(d) = n - 1},
                            t \in turns}

SolicitedExtracted ==
  {[order_number |-> "", email |-> ""],
   [order_number |-> "", email |-> "eva@mail.com"],
   [order_number |-> "1001", email |-> "eva@mail.com"],
   [order_number |-> "quiero #1234", email |-> ""],
   [order_number |-> "otro pedido track", email |-> ""]}
SolicitedClassifications ==
  {Classified(i, x, TRUE) : i \in {"other-general", "order_tracking"},
                            x \in SolicitedExtracted}

InitSolicited ==
  /\ request = NoRequest
  /\ pc = "off"
  /\ cmArgs = NoArgs
  /\ responses = <<>>
  /\ raceStart = 0
  /\ cmIdle
  /\ clock = 0
  /\ classification \in SolicitedClassifications
  /\ context \in ContextsOver(SolicitationTurns, MaxCtx)
  /\ resolved = Pending
  /\ chatOff /\ gfaOff /\ addressOff /\ sanitizerOff /\ answerOff /\ externalOff

SpecSolicited == InitSolicited /\ [][NextResolver]_vars

(***************************************************************************)
(* Properties of the follow-up and new-request tests (specification        *)
(* SpecSolicited)                                                          *)
(***************************************************************************)
\* the most recent turn whose role is system or assistant, 0 if none
lastSolicitor ==
  LET idx == {i \in 1..Len(context) : context[i].role \in {"system", "assistant"}}
  IN IF idx = {} THEN 0 ELSE CHOOSE i \in idx : \A j \in idx : j <= i

\* the resolved intent is the one of the nearest prior classification, or the
\* one received when the context holds no prior classification
intentInherited ==
  IF nearestPrior # 0
  THEN SameValue(Intent(resolved.value), Intent(priorOf(nearestPrior)))
  ELSE SameValue(Intent(resolved.value), Intent(classification))

\* C19 (as claimed): when the most recent system or assistant turn contains
\* "email" or "correo" and the extracted email matches the email pattern, the
\* turn is treated as a follow-up, whatever the extracted order_number: the
\* intent of the nearest prior classification is inherited.
C19_EmailAnswerIsFollowUp ==
  (/\ done
   /\ lastSolicitor # 0
   /\ \/ includes(toLowerCase(context[lastSolicitor].content), "email")
      \/ includes(toLowerCase(context[lastSolicitor].content), "correo")
   /\ emailRegex(Param(classification, "email").v) # "")
  => intentInherited

\* an identity slot that the classification received fills is returned as
\* received
identityKept ==
  \A k \in {"order_number", "email"} :
    Truthy(Param(classification, k))
    => SameValue(Param(resolved.value, k), Param(classification, k))

\* C20: when the follow-up test holds, only the follow-up branch runs, also
\* when the new-request test holds as well: the previous intent is inherited
\* and the parameters are not reset.  The new-request reset runs only when
\* the follow-up test fails, and the other-general rescue only when both
\* tests fail.
C20_FollowUpFirst ==
  done
  => LET followUp == isFollowUpResponse(classification, context)
         newRequest == isNewRequest(classification, context)
     IN /\ followUp => (intentInherited /\ identityKept)
        /\ (~followUp /\ newRequest)
           => /\ IntentIs(resolved.value, newRequestIntent(extracted))
              /\ ~Truthy(Param(resolved.before, "order_number"))
              /\ ~Truthy(Param(resolved.before, "email"))
        /\ (~followUp /\ ~newRequest)
           => /\ identityKept
              /\ IF IntentIs(classification, "other-general") THEN intentInherited
                 ELSE SameValue(Intent(resolved.value), Intent(classification))

\* a turn that passes both tests after "Gracias. What is your order number?"
\* inherited returns_exchange and kept its order_number
C20_Witness ==
  /\ done
  /\ isFollowUpResponse(classification, context)
  /\ isNewRequest(classification, context)
  /\ IntentIs(classification, "order_tracking")
  /\ nearestPrior # 0
  /\ IntentIs(resolved.value, "returns_exchange")
  /\ Param(resolved.value, "order_number").v = "quiero #1234"

(***************************************************************************)
(* AIService.classifyNewRequest on its own                                 *)
(***************************************************************************)
MaxWords == 2
NewRequestWords ==
  {"PEDIDO", "track", "cambiar", "size", "stock", "code", "invoice", "problem",
   "address", "update order", "hola", "where"}
RECURSIVE NewRequestTexts(_)
NewRequestTexts(n) ==
  IF n = 0 THEN {""}
  ELSE NewRequestTexts(n - 1)
       \cup {IF x = "" THEN w ELSE x \o " " \o w : x \in NewRequestTexts(n - 1),
                                                   w \in NewRequestWords}

\* the new turn is in order_number, or in email when order_number is empty
NewRequestClassifications ==
  {Classified("other-general", [order_number |-> x, email |-> ""], TRUE) :
     x \in NewRequestTexts(MaxWords)}
  \cup {Classified("order_tracking", [order_number |-> "", email |-> x], TRUE) :
          x \in NewRequestWords}

InitNewRequest ==
  /\ request = NoRequest
  /\ pc = "off"
  /\ cmArgs = NoArgs
  /\ responses = <<>>
  /\ raceStart = 0
  /\ cmIdle
  /\ clock = 0
  /\ classification \in NewRequestClassifications
  /\ context = <<>>
  /\ resolved = Pending
  /\ chatOff /\ gfaOff /\ addressOff /\ sanitizerOff /\ answerOff /\ externalOff

\* classifyNewRequest(classification)
ClassifyNew ==
  /\ pc = "off"
  /\ resolved.state = "pending"
  /\ resolved' = [state |-> "done", thrown |-> FALSE,
                  value |-> classifyNewRequest(classification), before |-> classification]
  /\ UNCHANGED <<routeVars, cmVars, clock, classification, context, serviceVars>>

NextNewRequest == ClassifyNew

SpecNewRequest == InitNewRequest /\ [][NextNewRequest]_vars

(***************************************************************************)
(* Properties of classifyNewRequest (specification SpecNewRequest)         *)
(***************************************************************************)
\* the keyword groups in their order
KeywordGroups ==
  <<[intent |-> "order_tracking",
     keywords |-> {"localizar", "donde", "buscar", "track", "where", "find"}],
    [intent |-> "returns_exchange",
     keywords |-> {"devolver", "cambiar", "return", "exchange", "devolución", "cambio"}],
    [intent |-> "product_sizing", keywords |-> {"talla", "tamaño", "size", "fit", "medida"}],
    [intent |-> "restock",
     keywords |-> {"disponible", "stock", "available", "cuando", "when"}],
    [intent |-> "promo_code",
     keywords |-> {"descuento", "promo", "discount", "offer", "código", "code"}],
    [intent |-> "invoice_request", keywords |-> {"factura", "recibo", "invoice", "receipt"}],
    [intent |-> "delivery_issue",
     keywords |-> {"no he recibido", "no llega", "haven't received", "not arrived",
                   "problema", "problem"}],
    [intent |-> "change_delivery",
     keywords |-> {"cambiar dirección", "nueva dirección", "change address", "new address",
                   "dirección", "address"}],
    [intent |-> "update_order",
     keywords |-> {"actualizar pedido", "modificar pedido", "update order", "modify order",
                   "cambiar pedido", "change order"}],
    [intent |-> "other-order", keywords |-> {"pedido", "order"}]>>

hasKeyword(g, u) == \E k \in KeywordGroups[g].keywords : includes(u, k)

\* the order_tracking group asks for "pedido" besides one of its keywords
groupMatch(g, u) ==
  /\ hasKeyword(g, u)
  /\ KeywordGroups[g].intent = "order_tracking" => includes(u, "pedido")

\* the intent of the earliest group that matches u, other-general when there
\* is none
earliestGroup(u) ==
  IF \A g \in 1..Len(KeywordGroups) : ~groupMatch(g, u) THEN "other-general"
  ELSE KeywordGroups[CHOOSE g \in 1..Len(KeywordGroups) :
                       groupMatch(g, u) /\ \A h \in 1..(g - 1) : ~groupMatch(h, u)].intent

\* C21: the derived intent is that of the earliest group, in the order
\* order_tracking, returns_exchange, product_sizing, restock, promo_code,
\* invoice_request, delivery_issue, change_delivery, update_order,
\* other-order, that matches the extracted text (a group matches a text
\* that contains one of its keywords, order_tracking a text that contains
\* "pedido" as well), other-general when none matches; the derived intent
\* is one of the eleven.
C21_EarliestMatchingGroup ==
  done => /\ IntentIs(resolved.value, earliestGroup(toLowerCase(extracted)))
          /\ Intent(resolved.value).v
               \in {KeywordGroups[g].intent : g \in 1..Len(KeywordGroups)}
                   \cup {"other-general"}

\* a text with keywords of returns_exchange and product_sizing was derived
\* as returns_exchange, the earlier of the two
C21_Witness ==
  /\ done
  /\ extracted = "size cambiar"
  /\ IntentIs(resolved.value, "returns_exchange")

(***************************************************************************)
(* The context resolver on contexts that hold previous classifications:    *)
(* the other-general rescue of enrichClassification                        *)
(***************************************************************************)
\* an assistant turn that holds "intent" and is not JSON
BrokenTurn == [role |-> "assistant", content |-> "{\"intent\":\"returns_exchange\""]
RescueTurns ==
  {UserTurn, BrokenTurn, PrevGeneralTurn, PrevReturnsTurn, PrevTrackingTurn, ClosingTurn}
RescueClassifications ==
  {Classified(i, x, TRUE) : i \in {"other-general", "order_tracking"}, x \in Extracted}

InitRescue ==
  /\ request = NoRequest
  /\ pc = "off"
  /\ cmArgs = NoArgs
  /\ responses = <<>>
  /\ raceStart = 0
  /\ cmIdle
  /\ clock = 0
  /\ classification \in RescueClassifications
  /\ context \in ContextsOver(RescueTurns, MaxCtx)
  /\ resolved = Pending
  /\ chatOff /\ gfaOff /\ addressOff /\ sanitizerOff /\ answerOff /\ externalOff

SpecRescue == InitRescue /\ [][NextResolver]_vars

(***************************************************************************)
(* Properties of the other-general rescue (specification SpecRescue)       *)
(***************************************************************************)
\* neither the follow-up test nor the new-request test holds
neitherTest ==
  \/ Len(context) = 0
  \/ /\ ~isFollowUpResponse(classification, context)
     /\ ~isNewRequest(classification, context)

\* C22 (as claimed): when neither test holds and the classifier returned
\* other-general, the resolved intent is that of the nearest prior assistant
\* turn that parses as JSON with an intent other than other-general; when
\* there is no such turn, intent and parameters are returned as received.
\* When the classifier returned another intent and neither test holds, the
\* intent is returned as received.  No turn makes the resolver fail.
C22_OtherGeneralRescue ==
  (resolved.state = "done" /\ neitherTest) =>
    /\ ~resolved.thrown
    /\ IF ~IntentIs(classification, "other-general")
       THEN SameValue(Intent(resolved.value), Intent(classification))
       ELSE IF nearestPrior # 0
       THEN SameValue(Intent(resolved.value), Intent(priorOf(nearestPrior)))
       ELSE /\ SameValue(Intent(resolved.value), Intent(classification))
            /\ SameParams(outParams, newParams)

\* what the pattern of slot k finds in a text
foundIn(k, text) == IF k = "order_number" THEN orderNumberRegex(text) ELSE emailRegex(text)

\* slot k of the result is as received, or was empty and holds what its
\* pattern finds in a user turn
filledFromUser(k) ==
  \/ SameValue(outParams[k], newParams[k])
  \/ /\ ~Truthy(newParams[k])
     /\ \E i \in 1..Len(context) :
          /\ context[i].role = "user"
          /\ foundIn(k, context[i].content) # ""
          /\ SameValue(outParams[k], JStr(foundIn(k, context[i].content)))

\* C22 (amended): the same, except that with no such turn the parameters are
\* as received when the backfill starts, which then fills an empty
\* order_number or email from the user turns of the context.
C22_OtherGeneralRescueThenBackfill ==
  (resolved.state = "done" /\ neitherTest) =>
    /\ ~resolved.thrown
    /\ IF ~IntentIs(classification, "other-general")
       THEN SameValue(Intent(resolved.value), Intent(classification))
       ELSE IF nearestPrior # 0
       THEN SameValue(Intent(resolved.value), Intent(priorOf(nearestPrior)))
       ELSE /\ SameValue(Intent(resolved.value), Intent(classification))
            /\ SameParams(Spread(Parameters(beforeBackfill)), newParams)
            /\ DOMAIN outParams = DOMAIN newParams
            /\ \A k \in DOMAIN outParams \ {"order_number", "email"} :
                 SameValue(outParams[k], newParams[k])
            /\ filledFromUser("order_number")
            /\ filledFromUser("email")

\* an other-general turn took the intent of the earliest turn of the context,
\* past a turn that is not JSON and a previous other-general classification
C22_Witness ==
  /\ done
  /\ neitherTest
  /\ context = <<PrevTrackingTurn, PrevGeneralTurn, BrokenTurn>>
  /\ IntentIs(classification, "other-general")
  /\ IntentIs(resolved.value, "order_tracking")

(***************************************************************************)
(* The context resolver on contexts whose user turns hold order numbers    *)
(* and emails: the backfill of enrichClassification                        *)
(***************************************************************************)
UserOrderTurn == [role |-> "user", content |-> "es el #1111"]
UserEmailTurn == [role |-> "user", content |-> "soy eva@mail.com"]
UserTwiceTurn ==
  [role |-> "user", content |-> "#123 #2222 y #3333 una@mail.com dos@mail.com"]
BackfillTurns == {UserOrderTurn, UserEmailTurn, UserTwiceTurn, UserTurn, SystemTurn}
BackfillExtracted ==
  {[order_number |-> "", email |-> ""],
   [order_number |-> "#1234", email |-> ""],
   [order_number |-> "", email |-> "bea@mail.com"],
   [order_number |-> "#1234", email |-> "bea@mail.com"]}
BackfillClassifications == {Classified("order_tracking", x, TRUE) : x \in BackfillExtracted}

InitBackfill ==
  /\ request = NoRequest
  /\ pc = "off"
  /\ cmArgs = NoArgs
  /\ responses = <<>>
  /\ raceStart = 0
  /\ cmIdle
  /\ clock = 0
  /\ classification \in BackfillClassifications
  /\ context \in ContextsOver(BackfillTurns, MaxCtx)
  /\ resolved = Pending
  /\ chatOff /\ gfaOff /\ addressOff /\ sanitizerOff /\ answerOff /\ externalOff

SpecBackfill == InitBackfill /\ [][NextResolver]_vars

(***************************************************************************)
(* Properties of the backfill (specification SpecBackfill)                 *)
(***************************************************************************)
\* the earliest user turn in which the pattern of slot k finds something, 0
\* if none
firstUserWith(k) ==
  LET idx == {i \in 1..Len(context) :
                context[i].role = "user" /\ foundIn(k, context[i].content) # ""}
  IN IF idx = {} THEN 0 ELSE CHOOSE i \in idx : \A j \in idx : i <= j

\* C23: for a non-empty context the backfill leaves a non-empty order_number
\* or email as it is, gives an empty order_number the digits of the first
\* #<4+ digits> token of the earliest user turn that has one and an empty
\* email the first email of the earliest user turn that has one, leaves the
\* slot as it is when no user turn has one, and changes no other parameter.
C23_BackfillFirstMatch ==
  (done /\ Len(context) > 0) =>
    LET before == Spread(Parameters(beforeBackfill))
        out == outParams
    IN /\ DOMAIN out = DOMAIN before
       /\ \A k \in DOMAIN out \ {"order_number", "email"} : SameValue(out[k], before[k])
       /\ \A k \in {"order_number", "email"} :
            IF Truthy(before[k]) \/ firstUserWith(k) = 0
            THEN SameValue(out[k], before[k])
            ELSE SameValue(out[k], JStr(foundIn(k, context[firstUserWith(k)].content)))

\* both slots were empty: the email came from the first turn and the order
\* number from the first long enough token of the second, and the third
\* turn, which holds both, changed neither
C23_Witness ==
  /\ done
  /\ context = <<UserEmailTurn, UserTwiceTurn, UserTurn>>
  /\ ~Truthy(Param(beforeBackfill, "order_number"))
  /\ ~Truthy(Param(beforeBackfill, "email"))
  /\ SameValue(outParams["order_number"], JStr("2222"))
  /\ SameValue(outParams["email"], JStr("eva@mail.com"))

(***************************************************************************)
(* The context resolver on contexts that hold tracking links               *)
(***************************************************************************)
LinkTurn ==
  [role |-> "assistant", content |-> "Sigue tu envio [here](https://envios.com/track/98765)"]
LinkYearTurn ==
  [role |-> "assistant", content |-> "Sigue tu envio [here](https://envios.com/2024/11111)"]
LinkHelpTurn ==
  [role |-> "assistant", content |-> "Mira la ayuda [here](https://envios.com/ayuda)"]
TrackingTurns == {LinkTurn, LinkYearTurn, LinkHelpTurn, UserTurn}
TrackingClassifications ==
  {Classified("order_tracking", [order_number |-> "", email |-> ""], TRUE)}
  \cup {SetParam(Classified("delivery_issue", [order_number |-> "", email |-> ""], TRUE),
                 "tracking_number", JStr(x)) : x \in {"", "55555"}}

InitTracking ==
  /\ request = NoRequest
  /\ pc = "off"
  /\ cmArgs = NoArgs
  /\ responses = <<>>
  /\ raceStart = 0
  /\ cmIdle
  /\ clock = 0
  /\ classification \in TrackingClassifications
  /\ context \in ContextsOver(TrackingTurns, MaxCtx)
  /\ resolved = Pending
  /\ chatOff /\ gfaOff /\ addressOff /\ sanitizerOff /\ answerOff /\ externalOff

SpecTracking == InitTracking /\ [][NextResolver]_vars

(***************************************************************************)
(* Properties of the tracking link (specification SpecTracking)            *)
(***************************************************************************)
\* the path segment that ends the url, "" when the url ends in "/"
trailingSegment(url) ==
  LET slashes == {i \in 1..Len(url) : Ch(url, i) = "/"}
      last == IF slashes = {} THEN 0 ELSE CHOOSE i \in slashes : \A j \in slashes : j <= i
  IN SubSeq(url, last + 1, Len(url))

purelyNumeric(s) == Len(s) > 0 /\ \A i \in 1..Len(s) : Ch(s, i) \in Digits

\* the turns whose [here](https://...) link ends in a purely numeric segment
numericLinks ==
  {i \in 1..Len(context) :
     /\ trackingRegex(context[i].content) # ""
     /\ purelyNumeric(trailingSegment(trackingRegex(context[i].content)))}

\* C24: when the resolved intent is delivery_issue, tracking_number is the
\* trailing purely numeric path segment of the first [here](https://...)
\* link, in context order, that has one, whatever the classifier provided,
\* and is as received when no link has one.
C24_TrailingNumericSegment ==
  (done /\ IntentIs(resolved.value, "delivery_issue")) =>
    IF numericLinks = {}
    THEN SameValue(outParams["tracking_number"], newParams["tracking_number"])
    ELSE LET first == CHOOSE i \in numericLinks : \A j \in numericLinks : i <= j
         IN SameValue(outParams["tracking_number"],
                      JStr(trailingSegment(trackingRegex(context[first].content))))

(***************************************************************************)
(* The context resolver on returns: returns_website_sent                   *)
(***************************************************************************)
PortalTurn ==
  [role |-> "assistant",
   content |-> "Gestiona tu cambio en " \o RETURNS_PORTAL_URL \o "/start"]
ReturnsTurns == {PortalTurn, UserTurn, PrevReturnsTurn}
\* what the language model put in returns_website_sent
ReturnsClassifications ==
  {SetParam(Classified(i, [order_number |-> "", email |-> ""], TRUE),
            "returns_website_sent", JBool(b)) :
     i \in {"returns_exchange", "other-general"}, b \in BOOLEAN}

InitReturns ==
  /\ request = NoRequest
  /\ pc = "off"
  /\ cmArgs = NoArgs
  /\ responses = <<>>
  /\ raceStart = 0
  /\ cmIdle
  /\ clock = 0
  /\ classification \in ReturnsClassifications
  /\ context \in ContextsOver(ReturnsTurns, MaxCtx)
  /\ resolved = Pending
  /\ chatOff /\ gfaOff /\ addressOff /\ sanitizerOff /\ answerOff /\ externalOff

SpecReturns == InitReturns /\ [][NextResolver]_vars

(***************************************************************************)
(* Properties of returns_website_sent (specification SpecReturns)          *)
(***************************************************************************)
portalSent == \E i \in 1..Len(context) : includes(context[i].content, RETURNS_PORTAL_URL)

\* C25: a classification returned with intent returns_exchange has
\* returns_website_sent true exactly when some turn of the context contains
\* the returns portal URL, for every context, the empty one included, and
\* whatever the language model put in the field.
C25_ReturnsWebsiteSentIffPortal ==
  (done /\ IntentIs(resolved.value, "returns_exchange"))
  => SameValue(outParams["returns_website_sent"], JBool(portalSent))

(***************************************************************************)
(* AIService.sanitizeInput on values of every type                         *)
(***************************************************************************)
\* what a caller can pass where a string is declared
NonStrings == {JNull, JUndef, JNum(5), JBool(TRUE), JObj(EmptyMap), JArr(<<>>)}

InitSanitizeValue ==
  /\ request = NoRequest
  /\ pc = "off"
  /\ cmArgs = NoArgs
  /\ responses = <<>>
  /\ raceStart = 0
  /\ cmIdle
  /\ clock = 0
  /\ resolverOff /\ chatOff /\ gfaOff /\ addressOff /\ answerOff /\ externalOff
  /\ sanInput \in {JStr(x) : x \in SanitizerInputs(MaxTokens)} \cup NonStrings
  /\ sanOnce = JUndef
  /\ sanTwice = JUndef

\* sanitizeInput(input)
SanitizeValue ==
  /\ sanOnce.t = "undef"
  /\ sanOnce' = JStr(sanitizeInput(sanInput))
  /\ UNCHANGED <<sanInput, sanTwice, notSanitizer>>

NextSanitizeValue == SanitizeValue

SpecSanitizeValue == InitSanitizeValue /\ [][NextSanitizeValue]_vars

(***************************************************************************)
(* Properties of sanitizeInput (specification SpecSanitizeValue)           *)
(***************************************************************************)
\* C26: for a string input the result of sanitizeInput holds no three
\* backticks in a row, no "system:" in any case, and no whitespace at its
\* start or end; for an input that is not a string the result is the empty
\* string.
C26_SanitizedOutput ==
  sanOnce.t = "str" =>
    IF sanInput.t = "str"
    THEN /\ ~includes(sanOnce.v, Backtick \o Backtick \o Backtick)
         /\ ~includes(toLowerCase(sanOnce.v), "system:")
         /\ Len(sanOnce.v) > 0
            => /\ Ch(sanOnce.v, 1) \notin Whitespace
               /\ Ch(sanOnce.v, Len(sanOnce.v)) \notin Whitespace
    ELSE sanOnce.v = ""

\* a space, an upper-case marker and four backticks were sanitized
C26_Witness ==
  /\ sanInput.t = "str"
  /\ sanInput.v = " SYSTEM:" \o Backtick \o Backtick \o Backtick \o Backtick
  /\ sanOnce.t = "str"
  /\ sanOnce.v = "sys:'''" \o Backtick

(***************************************************************************)
(* classifyMessage from the parsed completion on: the structure check and  *)
(* enrichClassification, on intents of any spelling                        *)
(***************************************************************************)
\* the type Intent
IntentValues ==
  {"order_tracking", "product_inquiry", "returns_exchange", "product_information",
   "change_delivery", "return_status", "promo_code", "returns_policy", "delivery_issue",
   "product_sizing", "conversation_end", "other-general", "restock", "other-order",
   "update_order", "invoice_request"}

\* a previous assistant turn whose JSON carries an intent of its own spelling
PrevUnknownTurn ==
  [role |-> "assistant", content |-> "{\"intent\":\"refund_please\",\"parameters\":{}}"]
AnyIntentTurns == {PrevUnknownTurn, PrevReturnsTurn, UserTurn}
\* what JSON.parse gives for the completion of the language model
AnyIntentClassifications ==
  {Classified(i, [order_number |-> "", email |-> ""], TRUE) :
     i \in {"greeting", "other-general", "order_tracking"}}
  \cup {JObj([parameters |-> JObj(DefaultParameters)])}

JsContext(c) == JArr([i \in 1..Len(c) |-> JsTurn(c[i])])

InitAnyIntent ==
  /\ request = NoRequest
  /\ pc = "off"
  /\ cmArgs = NoArgs
  /\ responses = <<>>
  /\ raceStart = 0
  /\ cmIdle
  /\ clock = 0
  /\ classification \in AnyIntentClassifications
  /\ context \in ContextsOver(AnyIntentTurns, MaxCtx)
  /\ resolved = Pending
  /\ chatOff /\ gfaOff /\ addressOff /\ sanitizerOff /\ answerOff /\ externalOff

\* classifyMessage from the structure check to its return
ClassifyReturns ==
  /\ pc = "off"
  /\ resolved.state = "pending"
  /\ resolved' = [state |-> "done", thrown |-> FALSE,
                  value |-> validateAndEnrich(Ok(classification, 0), JsContext(context)),
                  before |-> classification]
  /\ UNCHANGED <<routeVars, cmVars, clock, classification, context, serviceVars>>

NextAnyIntent == ClassifyReturns

SpecAnyIntent == InitAnyIntent /\ [][NextAnyIntent]_vars

(***************************************************************************)
(* Properties of the returned intent (specification SpecAnyIntent)         *)
(***************************************************************************)
\* C27: the classification that classifyMessage returns has an intent of
\* the type Intent, whatever intent the language model returned and
\* whatever intent the JSON of a prior assistant turn carries.
C27_IntentInClosedSet ==
  done => /\ Intent(resolved.value).t = "str"
          /\ Intent(resolved.value).v \in IntentValues

(***************************************************************************)
(* Properties of the response cache on a failed generation (specification  *)
(* SpecAnswerRoute)                                                        *)
(***************************************************************************)
\* the canned replies generateFinalAnswer resolves with when the call of the
\* language model failed
failureReplies == {commonResponses.error.es, commonResponses.error.en}

\* C29: the cache holds only answers of a successful generation: no entry of
\* the cache holds the canned error reply, and no request is answered with
\* it and cached = true.
C29_FailureNeverCached ==
  /\ \A k \in DOMAIN responseCache : responseCache[k].response \notin failureReplies
  /\ \A j \in 1..Len(answerResponses) :
       answerResponses[j].cached => answerResponses[j].answer \notin failureReplies

(***************************************************************************)
(* The answer route on the intents of the classification prompt            *)
(***************************************************************************)
\* the intents the classification prompt lets the language model choose from
ClassificationIntents ==
  {"order_tracking", "delivery_issue", "returns_exchange", "change_delivery",
   "product_sizing", "product_information", "restock", "promo_code", "invoice_request",
   "update_order", "conversation_end", "return_status", "other-order", "other-general"}

IntentBody(i) ==
  JObj([intent |-> JStr(i), parameters |-> JObj(EmptyMap), userMessage |-> JStr("hola")])
(***************************************************************************)
(* Properties of the intent validation (specification SpecAnswerRoute)     *)
(***************************************************************************)
\* C30: a request whose intent is one the classification prompt lists,
\* product_information included, is not refused with 400 for its intent.
C30_ClassifiedIntentsAccepted ==
  \A j \in 1..Len(answerResponses) :
    \A i \in ClassificationIntents :
      answerResponses[j].key = cacheKey(IntentBody(i)) => answerResponses[j].status # 400

(***************************************************************************)
(* The validate-address route of the external API: API key, rate limit,    *)
(* validation of the body, validateAddress                                 *)
(***************************************************************************)
EXTERNAL_RATE_LIMIT_WINDOW == 3600000
MAX_REQUESTS == 100
EXTERNAL_API_KEY == "key-1"

\* !apiKey || apiKey !== process.env.EXTERNAL_API_KEY
unauthorized(req) == ~Truthy(req.apiKey) \/ req.apiKey # JStr(EXTERNAL_API_KEY)

\* the branch of the rate-limit check that answers 429
externalRateLimited(limits, ip, now) ==
  /\ ip \in DOMAIN limits
  /\ ~(now > limits[ip].resetTime)
  /\ limits[ip].count >= MAX_REQUESTS

\* rateLimitMap after the rate-limit check of a request
externalAfterRateLimit(limits, ip, now) ==
  IF ip \notin DOMAIN limits \/ now > limits[ip].resetTime
  THEN (ip :> [count |-> 1, resetTime |-> now + EXTERNAL_RATE_LIMIT_WINDOW]) @@ limits
  ELSE IF limits[ip].count >= MAX_REQUESTS THEN limits
  ELSE (ip :> [count |-> limits[ip].count + 1, resetTime |-> limits[ip].resetTime]) @@ limits

\* validationStatus of the response
validationStatus(result) ==
  IF Truthy(Get(result, "multipleCandidates")) THEN "MULTIPLE"
  ELSE IF Truthy(Get(result, "formattedAddress")) THEN "VALID"
  ELSE "INVALID"

\* the record kept of a request that has been answered
externalAnswered(r, status, code, validation) ==
  [id |-> r.id, now |-> r.now, status |-> status, code |-> code, validation |-> validation]

ExternalRequests ==
  {[ip |-> ClientIp, apiKey |-> JStr(EXTERNAL_API_KEY), malformed |-> FALSE,
    address |-> JStr("calle mayor 1")],
   [ip |-> ClientIp, apiKey |-> JStr(EXTERNAL_API_KEY), malformed |-> FALSE,
    address |-> JUndef],
   [ip |-> ClientIp, apiKey |-> JNull, malformed |-> FALSE,
    address |-> JStr("calle mayor 1")]}
\* what the geocoder answers to validateAddress
ExternalReplies ==
  {geoUnreachable,
   geoData(JObj([status |-> JStr("OK"),
                 candidates |-> JArr(<<Candidate("Calle Mayor 1, Madrid")>>)]))}

ExternalResponds(r, record) ==
  /\ externalInFlight' = externalInFlight \ {r}
  /\ externalResponses' = Append(externalResponses, record)

\* what the handler does with request r after its rate-limit check, up to
\* the await of validateAddress; request.json() is taken to settle at once
ExternalStarts(r, req) ==
  IF req.malformed
  THEN ExternalResponds(r, externalAnswered(r, 500, "VALIDATION_ERROR", ""))
  ELSE IF invalidAddress(req.address)
  THEN ExternalResponds(r, externalAnswered(r, 400, "INVALID_INPUT", ""))
  ELSE /\ externalInFlight' = externalInFlight \cup {r}
       /\ UNCHANGED externalResponses

\* a request arrives: API key, rate limit, body, the call of validateAddress
ExternalArrives(req) ==
  /\ nextRequest < MaxRequests
  /\ nextRequest' = nextRequest + 1
  /\ IF unauthorized(req)
     THEN /\ ExternalResponds([id |-> nextRequest + 1, now |-> clock],
                              externalAnswered([id |-> nextRequest + 1, now |-> clock],
                                               401, "UNAUTHORIZED", ""))
          /\ UNCHANGED rateLimitMap
     ELSE /\ rateLimitMap' = externalAfterRateLimit(rateLimitMap, req.ip, clock)
          /\ IF externalRateLimited(rateLimitMap, req.ip, clock)
             THEN ExternalResponds([id |-> nextRequest + 1, now |-> clock],
                                   externalAnswered([id |-> nextRequest + 1, now |-> clock],
                                                    429, "RATE_LIMIT_EXCEEDED", ""))
             ELSE ExternalStarts([id |-> nextRequest + 1, now |-> clock], req)
  /\ UNCHANGED <<rateLimits, responseCache, inFlight, answerResponses, clock,
                 routeVars, cmVars, resolverVars, chatVars, gfaVars, addressVars,
                 sanitizerVars>>

\* validateAddress has settled: the response, or the catch of the handler
ExternalValidated(r, reply) ==
  /\ r \in externalInFlight
  /\ IF validateAddressEnd(reply).kind = "resolved"
     THEN ExternalResponds(r, externalAnswered(
                                r, 200, "",
                                validationStatus(validateAddressEnd(reply).value)))
     ELSE ExternalResponds(r, externalAnswered(r, 500, "VALIDATION_ERROR", ""))
  /\ UNCHANGED <<rateLimitMap, answerVars, clock, routeVars, cmVars, resolverVars,
                 chatVars, gfaVars, addressVars, sanitizerVars>>

(***************************************************************************)
(* The two rate-limited routes of one server                               *)
(***************************************************************************)
\* the request to the answer route: one that is answered
LimitedAnswerRequests ==
  {req \in AnswerRequests :
     /\ answerContentTypeError(req) = NoError
     /\ Get(req.body, "intent") = JStr("other-general")
     /\ Get(req.body, "context").t = "undef"}

\* each route has not seen the client yet, or the client has used all
\* requests but one of a window that ends RATE_LIMIT_WINDOW ms from now (a
\* window of the validate-address route that began before time 0)
InitRateLimit ==
  /\ request = NoRequest
  /\ pc = "off"
  /\ cmArgs = NoArgs
  /\ responses = <<>>
  /\ raceStart = 0
  /\ cmIdle
  /\ clock = 0
  /\ resolverOff /\ chatOff /\ gfaOff /\ addressOff /\ sanitizerOff
  /\ rateLimits \in {<<>>,
                     ClientIp :> [count |-> MAX_REQUESTS_PER_WINDOW - 1,
                                  resetTime |-> RATE_LIMIT_WINDOW]}
  /\ responseCache = <<>>
  /\ inFlight = {}
  /\ nextRequest = 0
  /\ answerResponses = <<>>
  /\ rateLimitMap \in {<<>>,
                       ClientIp :> [count |-> MAX_REQUESTS - 1,
                                    resetTime |-> RATE_LIMIT_WINDOW]}
  /\ externalInFlight = {}
  /\ externalResponses = <<>>

\* the instants at which requests arrive: at the start, at the end of the
\* windows that are open then, and one millisecond later
WindowInstants == {0, RATE_LIMIT_WINDOW, RATE_LIMIT_WINDOW + 1}

\* time passes up to the next instant or the next timer of the answer route,
\* whichever is first
WindowTick ==
  /\ \A r \in inFlight : ~answerTimerDue(r)
  /\ \E t \in WindowInstants : t > clock
  /\ clock' = Earliest({t \in WindowInstants : t > clock}
                       \cup {r.now + ANSWER_TIMEOUT : r \in inFlight})
  /\ UNCHANGED <<answerVars, notAnswerRoute>>

NextRateLimit ==
  \/ \E req \in LimitedAnswerRequests : AnswerArrives(req)
  \/ \E r \in inFlight : AnswerGenerated(r, "answered")
  \/ \E r \in inFlight : AnswerTimeout(r)
  \/ \E req \in ExternalRequests : ExternalArrives(req)
  \/ \E r \in externalInFlight, reply \in ExternalReplies : ExternalValidated(r, reply)
  \/ WindowTick

SpecRateLimit == InitRateLimit /\ [][NextRateLimit]_vars

(***************************************************************************)
(* Properties of the two rate limits (specification SpecRateLimit)         *)
(***************************************************************************)
\* the step is the arrival of a request at the answer route, at the
\* validate-address route
answerArrival == nextRequest' # nextRequest /\ UNCHANGED externalVars
externalArrival == nextRequest' # nextRequest /\ ~UNCHANGED externalVars

\* the count of the client has reached max and its window has not passed
atLimit(limits, max) ==
  /\ ClientIp \in DOMAIN limits
  /\ limits[ClientIp].count = max
  /\ ~(clock > limits[ClientIp].resetTime)

\* the requests of the log and in flight that passed the rate-limit check at
\* or after time start
passedSince(log, flying, start) ==
  Cardinality({j \in 1..Len(log) : log[j].status \notin {401, 429} /\ log[j].now >= start})
  + Cardinality({r \in flying : r.now >= start})

\* the stored count is at most max, and at most as many requests as it says
\* have passed the check since the window began
withinLimit(limits, window, max, log, flying) ==
  ClientIp \in DOMAIN limits
  => /\ limits[ClientIp].count <= max
     /\ passedSince(log, flying, limits[ClientIp].resetTime - window)
          <= limits[ClientIp].count

limitsKept ==
  /\ withinLimit(rateLimits, RATE_LIMIT_WINDOW, MAX_REQUESTS_PER_WINDOW,
                 answerResponses, inFlight)
  /\ withinLimit(rateLimitMap, EXTERNAL_RATE_LIMIT_WINDOW, MAX_REQUESTS,
                 externalResponses, externalInFlight)

\* the step has answered a request with this status
answeredWith(log, after, status) ==
  Len(after) = Len(log) + 1 /\ after[Len(after)].status = status

\* C28 (as claimed): on either route the stored count never exceeds the
\* maximum of the window, at most that many requests pass the check within
\* a window, and a request that arrives while the count equals the maximum
\* and the window has not passed is answered 429 and leaves the counter as
\* it is.
C28_RateLimit ==
  /\ []limitsKept
  /\ [][/\ (answerArrival /\ atLimit(rateLimits, MAX_REQUESTS_PER_WINDOW))
           => /\ answeredWith(answerResponses, answerResponses', 429)
              /\ rateLimits' = rateLimits
        /\ (externalArrival /\ atLimit(rateLimitMap, MAX_REQUESTS))
           => /\ answeredWith(externalResponses, externalResponses', 429)
              /\ rateLimitMap' = rateLimitMap]_vars

\* C28 (amended): the same, where a request to the validate-address route
\* that carries no valid API key is answered 401 before the rate limit is
\* looked at.
C28_RateLimitAfterApiKey ==
  /\ []limitsKept
  /\ [][/\ (answerArrival /\ atLimit(rateLimits, MAX_REQUESTS_PER_WINDOW))
           => /\ answeredWith(answerResponses, answerResponses', 429)
              /\ rateLimits' = rateLimits
        /\ (externalArrival /\ atLimit(rateLimitMap, MAX_REQUESTS))
           => /\ \/ answeredWith(externalResponses, externalResponses', 429)
                 \/ answeredWith(externalResponses, externalResponses', 401)
              /\ rateLimitMap' = rateLimitMap
        /\ externalArrival
           => (answeredWith(externalResponses, externalResponses', 401)
               => rateLimitMap' = rateLimitMap)]_vars

\* the last request of the window of the answer route passed and the next
\* one was answered 429, and the validate-address route has counted the
\* last request of its window
C28_Witness ==
  /\ Len(answerResponses) = 2
  /\ answerResponses[1].status = 200
  /\ answerResponses[2].status = 429
  /\ rateLimits[ClientIp].count = MAX_REQUESTS_PER_WINDOW
  /\ ClientIp \in DOMAIN rateLimitMap
  /\ rateLimitMap[ClientIp].count = MAX_REQUESTS

====
